---- MODULE Spec2Model ----
(***************************************************************************)
(* Model of the Oulipo constraint engine of perseus (src-tauri/src/oulipo): *)
(* the univocalic check, the validators, the constraint registry, the batch *)
(* checker, the workflow builder and OulipoService::check_with_workflow.    *)
(*                                                                          *)
(* A text is a sequence of characters.  A character is a one-element name;  *)
(* "I_dot" is U+0130 (capital I with dot above, two UTF-8 bytes, lowercase  *)
(* "i" followed by U+0307, here "dot_above").  Offsets and lengths are in   *)
(* bytes, as str::len and str::char_indices give them.                      *)
(***************************************************************************)
EXTENDS Integers, Sequences, FiniteSets, TLC

VARIABLES
    builder,     \* Option<ConstraintWorkflowBuilder>: None once build() consumed it
    declared,    \* history: the arguments of the with_* calls made on the builder
    config,      \* Option<OulipoResult<ConstraintWorkflowConfig>>: what build() returned
    wfText,      \* the text given to check_with_workflow
    wfOut,       \* Option<Result<WorkflowResult>>: what check_with_workflow returned
    registry,    \* ConstraintRegistry.constraints, as a list of (key, factory) entries
    registered,  \* history: the names of the factories passed to register by callers
    batch,       \* BatchConstraintChecker.constraints
    regOut,      \* the last registry / batch call: its arguments and what it returned
    textOut,     \* the last call of a text check or transform: arguments and outcome
    aiService,   \* the AIService inside AppServices.ai (the Mutex's content)
    aiLock,      \* the Mutex of AppServices.ai: None, or Some(task holding the guard)
    task,        \* per task: the command it runs, its position, its cloned AIService
    spiral       \* the locals of a generate_spiral_combination call and its position

vars == <<builder, declared, config, wfText, wfOut, registry, registered, batch, regOut,
          textOut, aiService, aiLock, task, spiral>>

wfVars == <<builder, declared, config, wfText, wfOut>>
regVars == <<registry, registered, batch, regOut>>
txVars == <<textOut>>
aiVars == <<aiService, aiLock, task>>
spVars == <<spiral>>

----------------------------------------------------------------------------
(* Bounds of the model. *)

MaxText == 2
MaxConstraints == 2
MaxBound == 1
MaxBatch == 2
MaxCheckText == 3
MaxWords == 3
MaxSpiralWords == 10
MaxCalls == 2

----------------------------------------------------------------------------
(* Characters and strings. *)

LowerCase ==
    <<"a", "b", "c", "d", "e", "f", "g", "h", "i", "j", "k", "l", "m",
      "n", "o", "p", "q", "r", "s", "t", "u", "v", "w", "x", "y", "z">>
UpperCase ==
    <<"A", "B", "C", "D", "E", "F", "G", "H", "I", "J", "K", "L", "M",
      "N", "O", "P", "Q", "R", "S", "T", "U", "V", "W", "X", "Y", "Z">>
Digits == <<"0", "1", "2", "3", "4", "5", "6", "7", "8", "9">>

(* char::to_lowercase: the lowercase mapping of a character, a string *)
to_lowercase(ch) ==
    IF ch = "I_dot" THEN <<"i", "dot_above">>
    ELSE IF \E i \in 1..26 : UpperCase[i] = ch
         THEN <<LowerCase[CHOOSE i \in 1..26 : UpperCase[i] = ch]>>
         ELSE <<ch>>

len_utf8(ch) == IF ch \in {"I_dot", "dot_above"} THEN 2 ELSE 1

is_alphabetic(ch) ==
    \/ \E i \in 1..26 : LowerCase[i] = ch \/ UpperCase[i] = ch
    \/ ch = "I_dot"

is_alphanumeric(ch) == is_alphabetic(ch) \/ \E i \in 1..10 : Digits[i] = ch

(* "sp" is a space, "nl" a line feed *)
is_whitespace(ch) == ch \in {"sp", "nl"}

(* str::to_lowercase, character by character *)
RECURSIVE str_to_lowercase(_)
str_to_lowercase(s) ==
    IF s = <<>> THEN <<>> ELSE to_lowercase(Head(s)) \o str_to_lowercase(Tail(s))

(* str::len(): the number of bytes, summed by halves *)
RECURSIVE str_len(_)
str_len(s) ==
    IF s = <<>> THEN 0
    ELSE IF Len(s) = 1 THEN len_utf8(s[1])
    ELSE LET h == Len(s) \div 2
         IN str_len(SubSeq(s, 1, h)) + str_len(SubSeq(s, h + 1, Len(s)))

(* byte offset of the i-th character (1-based) of s, as char_indices *)
char_offset_past(s, i) == str_len(SubSeq(s, 1, i))

char_offset(s, i) == str_len(SubSeq(s, 1, i - 1))

VOWELS == <<"a", "e", "i", "o", "u">>
VOWELS_UPPER == <<"A", "E", "I", "O", "U">>

str_contains(s, ch) == \E i \in 1..Len(s) : s[i] = ch

is_vowel(ch) ==
    \/ str_contains(VOWELS, Head(to_lowercase(ch)))
    \/ str_contains(VOWELS_UPPER, ch)

(* str::replace(pat, ""): every non-overlapping occurrence of pat removed *)
RECURSIVE str_remove(_, _)
str_remove(s, pat) ==
    IF s = <<>> \/ pat = <<>> THEN s
    ELSE IF Len(s) >= Len(pat) /\ SubSeq(s, 1, Len(pat)) = pat
         THEN str_remove(SubSeq(s, Len(pat) + 1, Len(s)), pat)
         ELSE <<Head(s)>> \o str_remove(Tail(s), pat)

(* str::split_whitespace(): the maximal runs of non-whitespace characters,  *)
(* in order                                                                *)
RECURSIVE split_whitespace(_)
split_whitespace(s) ==
    IF s = <<>> THEN <<>>
    ELSE IF is_whitespace(Head(s)) THEN split_whitespace(Tail(s))
    ELSE LET stops == {i \in 1..Len(s) : is_whitespace(s[i])}
             n == IF stops = {} THEN Len(s) + 1
                  ELSE CHOOSE i \in stops : \A j \in stops : i <= j
         IN <<SubSeq(s, 1, n - 1)>> \o split_whitespace(SubSeq(s, n, Len(s)))

(* str::split_whitespace().count(): the number of maximal runs of          *)
(* non-whitespace characters                                               *)
split_whitespace_count(s) ==
    Cardinality({i \in 1..Len(s) :
        /\ ~is_whitespace(s[i])
        /\ (i = 1 \/ is_whitespace(s[i - 1]))})

----------------------------------------------------------------------------
(* Values: Option, formatted strings, JSON. *)

None == <<>>
Some(x) == <<x>>

(* format!(msg, ...) with its character and numeric arguments *)
Fmt(msg, chars, nums) == [msg |-> msg, chars |-> chars, nums |-> nums]

JNull == [t |-> "null", lit |-> "", s |-> <<>>, n |-> 0]
JStr(s) == [t |-> "str", lit |-> "", s |-> s, n |-> 0]
JLit(l) == [t |-> "str", lit |-> l, s |-> <<>>, n |-> 0]
JNum(n) == [t |-> "num", lit |-> "", s |-> <<>>, n |-> n]
JOpt(o) == IF o = None THEN JNull ELSE JNum(o[1])
JArr(a) == [t |-> "arr", lit |-> "", s |-> a, n |-> 0]
JBool(b) == [t |-> "bool", lit |-> "", s |-> <<>>, n |-> IF b THEN 1 ELSE 0]

(* serde_json Value::as_str *)
as_str(j) == IF j.t = "str" /\ j.lit = "" THEN Some(j.s) ELSE None

(* s.chars().next() *)
first_char(s) == IF s = <<>> THEN None ELSE Some(Head(s))

Violation(position, length, issue, suggestion) ==
    [position |-> position, length |-> length, issue |-> issue, suggestion |-> suggestion]

ConstraintResult(success, result, violations, suggestions, metadata) ==
    [success |-> success, result |-> result, violations |-> violations,
     suggestions |-> suggestions, metadata |-> metadata]

Ok(v) == [ok |-> TRUE, value |-> v]
Err(kind, msg) == [ok |-> FALSE, value |-> [error |-> kind, msg |-> msg]]

----------------------------------------------------------------------------
(* constraints/univocalic.rs *)

generate_univocalic_suggestions(allowed) ==
    CASE allowed = <<"a">> -> <<Fmt("Use words like: at, and, has", <<>>, <<>>),
                               Fmt("A constraint that can make grand narratives", <<>>, <<>>)>>
      [] allowed = <<"e">> -> <<Fmt("Use words like: the, when, then", <<>>, <<>>),
                               Fmt("Create sentences where every letter helps", <<>>, <<>>)>>
      [] allowed = <<"i">> -> <<Fmt("Use words like: in, is, it", <<>>, <<>>),
                               Fmt("Think minimal - it is tricky writing", <<>>, <<>>)>>
      [] allowed = <<"o">> -> <<Fmt("Use words like: on, do, go", <<>>, <<>>),
                               Fmt("Conform to strong word contortions", <<>>, <<>>)>>
      [] allowed = <<"u">> -> <<Fmt("Use words like: up, but, just", <<>>, <<>>),
                               Fmt("Construct full turns - unusually fun", <<>>, <<>>)>>
      [] OTHER -> <<Fmt("Focus on words containing only", allowed, <<>>),
                    Fmt("Use a dictionary to find suitable words", <<>>, <<>>)>>

RECURSIVE univocalic_violations(_, _, _)
univocalic_violations(text, allowed_vowel, i) ==
    IF i > Len(text) THEN <<>>
    ELSE LET ch == text[i]
             hit == /\ is_alphabetic(ch) /\ is_vowel(ch)
                    /\ to_lowercase(ch) # to_lowercase(allowed_vowel)
         IN (IF hit
             THEN <<Violation(char_offset(text, i), 1,
                              Fmt("Vowel is not allowed", <<ch, allowed_vowel>>, <<>>),
                              Some(Fmt("Replace with word containing only", <<allowed_vowel>>, <<>>)))>>
             ELSE <<>>)
            \o univocalic_violations(text, allowed_vowel, i + 1)

check_univocalic(text, allowed_vowel) ==
    LET allowed == to_lowercase(allowed_vowel)
        violations == univocalic_violations(text, allowed_vowel, 1)
        success == violations = <<>>
        suggestions == IF success
                       THEN <<Fmt("Perfect univocalic using", <<allowed_vowel>>, <<>>)>>
                       ELSE generate_univocalic_suggestions(allowed)
        violation_count == Len(violations)
        forbidden_vowels == str_remove(VOWELS, allowed)
    IN Ok(ConstraintResult(
           success,
           Some(IF success
                THEN Fmt("Valid univocalic using", <<allowed_vowel>>, <<>>)
                ELSE Fmt("forbidden vowels found", <<>>, <<violation_count>>)),
           violations,
           suggestions,
           [allowed_vowel |-> JStr(<<allowed_vowel>>),
            forbidden_vowels |-> JStr(forbidden_vowels),
            violation_count |-> JNum(violation_count),
            text_length |-> JNum(str_len(text))]))

(* the free function univocalic::check *)
univocalic_check(text, allowed_vowel) == check_univocalic(text, allowed_vowel)

UnivocalicConstraint_new(allowed_vowel) ==
    IF ~is_vowel(allowed_vowel)
    THEN Err("InvalidConfig", Fmt("is not a valid vowel", <<allowed_vowel>>, <<>>))
    ELSE Ok([allowed_vowel |-> allowed_vowel])

(* impl Constraint for UnivocalicConstraint *)
Constraint_check(c, text) == check_univocalic(text, c.allowed_vowel)

----------------------------------------------------------------------------
(* constraints/lipogram.rs *)

generate_lipogram_suggestions(forbidden_letter) ==
    <<Fmt("Avoid words containing", forbidden_letter, <<>>),
      Fmt("Use synonyms without the forbidden letter", <<>>, <<>>),
      Fmt("Restructure sentences to eliminate problematic words", <<>>, <<>>),
      Fmt("Consider alternative phrasings", <<>>, <<>>)>>

RECURSIVE lipogram_violations_exact(_, _, _)
lipogram_violations_exact(text, forbidden_letter, i) ==
    IF i > Len(text) THEN <<>>
    ELSE (IF <<text[i]>> = str_to_lowercase(forbidden_letter)
          THEN <<Violation(char_offset(text, i), 1,
                           Fmt("Forbidden letter found", forbidden_letter, <<>>),
                           Some(Fmt("Replace with alternative word", <<>>, <<>>)))>>
          ELSE <<>>)
         \o lipogram_violations_exact(text, forbidden_letter, i + 1)

RECURSIVE lipogram_violations(_, _, _)
lipogram_violations(text, forbidden_letter, i) ==
    IF i > Len(text) THEN <<>>
    ELSE (IF to_lowercase(text[i]) = str_to_lowercase(forbidden_letter)
          THEN <<Violation(char_offset(text, i), 1,
                           Fmt("Forbidden letter found", forbidden_letter, <<>>),
                           Some(Fmt("Replace with alternative word", <<>>, <<>>)))>>
          ELSE <<>>)
         \o lipogram_violations(text, forbidden_letter, i + 1)

lipogram_check(text, forbidden_letter) ==
    LET forbidden == str_to_lowercase(forbidden_letter)
        violations == lipogram_violations(text, forbidden_letter, 1)
        success == violations = <<>>
        suggestions == IF success
                       THEN <<Fmt("Perfect lipogram!", <<>>, <<>>)>>
                       ELSE generate_lipogram_suggestions(forbidden)
    IN Ok(ConstraintResult(
           success,
           Some(IF success THEN Fmt("Valid lipogram", <<>>, <<>>)
                           ELSE Fmt("Violations found", <<>>, <<>>)),
           violations,
           suggestions,
           [forbidden_letter |-> JStr(forbidden_letter),
            violation_count |-> JNum(Len(violations)),
            text_length |-> JNum(str_len(text))]))

----------------------------------------------------------------------------

(* constraints/snowball.rs *)

generate_snowball_suggestions ==
    <<Fmt("Start with single-letter words (I, a)", <<>>, <<>>),
      Fmt("Use progressively longer synonyms", <<>>, <<>>),
      Fmt("Consider compound words for longer positions", <<>>, <<>>),
      Fmt("Plan the sentence structure in advance", <<>>, <<>>)>>

(* the loop over words.iter().enumerate() from index i on, with the        *)
(* running position                                                        *)
RECURSIVE snowball_violations_short(_, _, _)
snowball_violations_short(words, i, position) ==
    IF i >= Len(words) THEN <<>>
    ELSE LET word == words[i + 1]
             expected_length == i + 1
             actual_length == str_len(word)
         IN (IF actual_length < expected_length
             THEN <<Violation(position, str_len(word),
                              Fmt("Word should be letters, but is", <<>>,
                                  <<i + 1, expected_length, actual_length>>),
                              Some(Fmt("Replace with a -letter word", <<>>, <<expected_length>>)))>>
             ELSE <<>>)
            \o snowball_violations_short(words, i + 1, position + str_len(word) + 1)

RECURSIVE snowball_violations(_, _, _)
snowball_violations(words, i, position) ==
    IF i >= Len(words) THEN <<>>
    ELSE LET word == words[i + 1]
             expected_length == i + 1
             actual_length == str_len(word)
         IN (IF actual_length # expected_length
             THEN <<Violation(position, str_len(word),
                              Fmt("Word should be letters, but is", <<>>,
                                  <<i + 1, expected_length, actual_length>>),
                              Some(Fmt("Replace with a -letter word", <<>>, <<expected_length>>)))>>
             ELSE <<>>)
            \o snowball_violations(words, i + 1, position + str_len(word) + 1)

snowball_check(text) ==
    LET words == split_whitespace(text)
        violations == snowball_violations(words, 0, 0)
        success == violations = <<>>
        suggestions == IF success
                       THEN <<Fmt("Perfect snowball pattern!", <<>>, <<>>)>>
                       ELSE generate_snowball_suggestions
        violation_count == Len(violations)
    IN Ok(ConstraintResult(
           success,
           Some(IF success THEN Fmt("Valid snowball pattern", <<>>, <<>>)
                           ELSE Fmt("violations found", <<>>, <<violation_count>>)),
           violations,
           suggestions,
           [word_count |-> JNum(Len(words)),
            violation_count |-> JNum(violation_count),
            expected_pattern |-> JArr([k \in 1..Len(words) |-> k]),
            actual_lengths |-> JArr([k \in 1..Len(words) |-> str_len(words[k])])]))

----------------------------------------------------------------------------

(* constraints/palindrome.rs *)

Reverse(s) == [i \in 1..Len(s) |-> s[Len(s) + 1 - i]]

(* chars().filter(is_alphanumeric).map(to_lowercase().next().unwrap()) *)
RECURSIVE palindrome_cleaned_unfiltered(_)
palindrome_cleaned_unfiltered(text) ==
    IF text = <<>> THEN <<>>
    ELSE <<Head(to_lowercase(Head(text)))>> \o palindrome_cleaned_unfiltered(Tail(text))

RECURSIVE palindrome_cleaned(_)
palindrome_cleaned(text) ==
    IF text = <<>> THEN <<>>
    ELSE (IF is_alphanumeric(Head(text))
          THEN <<Head(to_lowercase(Head(text)))>> ELSE <<>>)
         \o palindrome_cleaned(Tail(text))

(* the loop over chars.zip(rev_chars).enumerate() from index i on *)
RECURSIVE find_palindrome_violations(_, _, _)
find_palindrome_violations(text, reversed, i) ==
    IF i >= Len(text) \/ i >= Len(reversed) THEN <<>>
    ELSE LET ch == text[i + 1]
             rev_ch == reversed[i + 1]
         IN (IF ch # rev_ch
             THEN <<Violation(i, 1,
                              Fmt("Character doesn't match its mirror", <<ch, rev_ch>>, <<>>),
                              Some(Fmt("Consider changing to", <<rev_ch>>, <<>>)))>>
             ELSE <<>>)
            \o find_palindrome_violations(text, reversed, i + 1)

generate_palindrome_suggestions ==
    <<Fmt("Add mirroring words at the end", <<>>, <<>>),
      Fmt("Remove or modify middle words", <<>>, <<>>),
      Fmt("Try single-word palindromes first", <<>>, <<>>),
      Fmt("Consider phrase-level palindromes", <<>>, <<>>)>>

palindrome_check(text) ==
    LET cleaned == palindrome_cleaned(text)
        reversed == Reverse(cleaned)
        is_palindrome == cleaned = reversed
        violations == IF is_palindrome THEN <<>>
                      ELSE find_palindrome_violations(cleaned, reversed, 0)
        suggestions == IF is_palindrome
                       THEN <<Fmt("Perfect palindrome!", <<>>, <<>>)>>
                       ELSE generate_palindrome_suggestions
    IN Ok(ConstraintResult(
           is_palindrome,
           Some(IF is_palindrome THEN Fmt("Valid palindrome", <<>>, <<>>)
                                 ELSE Fmt("Not a palindrome", <<>>, <<>>)),
           violations,
           suggestions,
           [original_length |-> JNum(str_len(text)),
            cleaned_length |-> JNum(str_len(cleaned)),
            is_palindrome |-> JBool(is_palindrome),
            cleaned_text |-> JStr(cleaned)]))

----------------------------------------------------------------------------

(* constraints/prisoners.rs *)

(* str::contains with a string pattern *)
str_contains_str(s, pat) ==
    \E i \in 0..(Len(s) - Len(pat)) : SubSeq(s, i + 1, i + Len(pat)) = pat

allowed_letters ==
    <<"c", "f", "h", "i", "j", "k", "l", "m", "n", "s", "t", "u", "v", "w", "x", "y", "z">>

RECURSIVE prisoners_violations_any_char(_, _)
prisoners_violations_any_char(text, i) ==
    IF i > Len(text) THEN <<>>
    ELSE LET ch == text[i]
             lower_ch == to_lowercase(ch)
         IN (IF ~str_contains_str(allowed_letters, lower_ch)
             THEN <<Violation(char_offset(text, i), 1,
                              Fmt("Letter contains loops and is forbidden", <<ch>>, <<>>),
                              Some(Fmt("Replace with a letter without loops", <<>>, <<>>)))>>
             ELSE <<>>)
            \o prisoners_violations_any_char(text, i + 1)

RECURSIVE prisoners_violations(_, _)
prisoners_violations(text, i) ==
    IF i > Len(text) THEN <<>>
    ELSE LET ch == text[i]
             lower_ch == to_lowercase(ch)
         IN (IF is_alphabetic(ch) /\ ~str_contains_str(allowed_letters, lower_ch)
             THEN <<Violation(char_offset(text, i), 1,
                              Fmt("Letter contains loops and is forbidden", <<ch>>, <<>>),
                              Some(Fmt("Replace with a letter without loops", <<>>, <<>>)))>>
             ELSE <<>>)
            \o prisoners_violations(text, i + 1)

generate_prisoners_suggestions ==
    <<Fmt("Use only letters without loops: c, f, h, i, j, k, l, m, n, s, t, u, v, w, x, y, z",
          <<>>, <<>>),
      Fmt("Avoid letters: a, b, d, e, g, o, p, q, r", <<>>, <<>>),
      Fmt("Focus on words with straight lines and simple curves", <<>>, <<>>),
      Fmt("Think of letters that could be drawn with sticks", <<>>, <<>>)>>

prisoners_check(text) ==
    LET violations == prisoners_violations(text, 1)
        success == violations = <<>>
        suggestions == IF success
                       THEN <<Fmt("Perfect prisoner's constraint text!", <<>>, <<>>)>>
                       ELSE generate_prisoners_suggestions
        violation_count == Len(violations)
    IN Ok(ConstraintResult(
           success,
           Some(IF success THEN Fmt("Valid prisoner's constraint text", <<>>, <<>>)
                           ELSE Fmt("forbidden letters found", <<>>, <<violation_count>>)),
           violations,
           suggestions,
           [allowed_letters |-> JStr(allowed_letters),
            forbidden_letters |-> JLit("abdegopqr"),
            violation_count |-> JNum(violation_count),
            text_length |-> JNum(str_len(text))]))

----------------------------------------------------------------------------

(* constraints/sestina.rs *)

(* str::lines() over "nl"-terminated lines; a final empty line is dropped *)
RECURSIVE str_lines_trailing(_)
str_lines_trailing(s) ==
    LET stops == {i \in 1..Len(s) : s[i] = "nl"}
    IN IF stops = {} THEN <<s>>
       ELSE LET n == CHOOSE i \in stops : \A j \in stops : i <= j
            IN <<SubSeq(s, 1, n - 1)>> \o str_lines_trailing(SubSeq(s, n + 1, Len(s)))

RECURSIVE str_lines(_)
str_lines(s) ==
    IF s = <<>> THEN <<>>
    ELSE LET stops == {i \in 1..Len(s) : s[i] = "nl"}
         IN IF stops = {} THEN <<s>>
            ELSE LET n == CHOOSE i \in stops : \A j \in stops : i <= j
                 IN <<SubSeq(s, 1, n - 1)>> \o str_lines(SubSeq(s, n + 1, Len(s)))

(* str::trim() *)
str_trim(s) ==
    LET keep == {i \in 1..Len(s) : ~is_whitespace(s[i])}
    IN IF keep = {} THEN <<>>
       ELSE SubSeq(s, CHOOSE i \in keep : \A j \in keep : i <= j,
                      CHOOSE i \in keep : \A j \in keep : i >= j)

(* str::ends_with *)
str_ends_with(s, pat) ==
    Len(s) >= Len(pat) /\ SubSeq(s, Len(s) - Len(pat) + 1, Len(s)) = pat

(* split_whitespace().last().unwrap_or("") *)
last_word(s) ==
    LET words == split_whitespace(s)
    IN IF words = <<>> THEN <<>> ELSE words[Len(words)]

expected_pattern ==
    <<<<0, 1, 2, 3, 4, 5>>,
      <<5, 0, 4, 1, 3, 2>>,
      <<2, 5, 3, 0, 1, 4>>,
      <<4, 2, 1, 5, 0, 3>>,
      <<3, 4, 0, 2, 5, 1>>,
      <<1, 3, 5, 4, 2, 0>>>>

(* the nested loops over stanzas and lines, from the k-th pair on *)
RECURSIVE sestina_violations(_, _, _)
sestina_violations(lines, end_words, k) ==
    IF k >= 36 THEN <<>>
    ELSE LET stanza_idx == k \div 6
             line_idx == k % 6
             word_idx == expected_pattern[stanza_idx + 1][line_idx + 1]
             overall_line_idx == stanza_idx * 6 + line_idx
         IN (IF overall_line_idx < Len(lines)
             THEN LET line == str_trim(lines[overall_line_idx + 1])
                      expected_end_word == end_words[word_idx + 1]
                  IN IF ~str_ends_with(str_to_lowercase(line),
                                       str_to_lowercase(expected_end_word))
                     THEN <<Violation(overall_line_idx, str_len(line),
                                      Fmt("Line should end with, but ends with",
                                          <<expected_end_word, last_word(line)>>,
                                          <<overall_line_idx + 1>>),
                                      Some(Fmt("Rewrite line to end with",
                                               <<expected_end_word>>, <<>>)))>>
                     ELSE <<>>
             ELSE <<>>)
            \o sestina_violations(lines, end_words, k + 1)

sestina_check(text, end_words) ==
    LET lines == str_lines(text)
    IN IF Len(end_words) # 6
       THEN Ok(ConstraintResult(
                FALSE, None,
                <<Violation(0, str_len(text),
                            Fmt("Sestina requires exactly 6 end words", <<>>, <<>>),
                            Some(Fmt("Provide exactly 6 end words for the sestina pattern",
                                     <<>>, <<>>)))>>,
                <<Fmt("A sestina uses 6 specific words that end each line in a rotating pattern",
                      <<>>, <<>>)>>,
                [constraint_type |-> JLit("sestina"),
                 provided_end_words |-> JNum(Len(end_words)),
                 required_end_words |-> JNum(6)]))
       ELSE IF Len(lines) # 39
       THEN Ok(ConstraintResult(
                FALSE, None,
                <<Violation(0, str_len(text),
                            Fmt("Sestina should have 39 lines (6 stanzas + 3-line envoi), found",
                                <<>>, <<Len(lines)>>),
                            Some(Fmt("Structure: 6 stanzas of 6 lines each, plus 3-line concluding envoi",
                                     <<>>, <<>>)))>>,
                <<Fmt("Each stanza should have 6 lines", <<>>, <<>>),
                  Fmt("End with a 3-line envoi (concluding tercet)", <<>>, <<>>),
                  Fmt("Each line should end with one of the 6 designated words", <<>>, <<>>)>>,
                [constraint_type |-> JLit("sestina"),
                 line_count |-> JNum(Len(lines)),
                 expected_lines |-> JNum(39)]))
       ELSE LET violations == sestina_violations(lines, end_words, 0)
                violation_count == Len(violations)
                is_empty == violations = <<>>
            IN Ok(ConstraintResult(
                   is_empty,
                   Some(IF is_empty THEN Fmt("Valid sestina structure", <<>>, <<>>)
                        ELSE Fmt("Sestina structure has violations", <<>>, <<violation_count>>)),
                   violations,
                   IF is_empty
                   THEN <<Fmt("Perfect sestina structure!", <<>>, <<>>)>>
                   ELSE <<Fmt("Check line endings match the sestina pattern", <<>>, <<>>),
                          Fmt("Ensure each stanza follows the word rotation", <<>>, <<>>),
                          Fmt("Verify the 3-line envoi uses all 6 words", <<>>, <<>>)>>,
                   [constraint_type |-> JLit("sestina"),
                    end_words |-> JArr(end_words),
                    violations_count |-> JNum(violation_count),
                    line_count |-> JNum(Len(lines))]))

----------------------------------------------------------------------------

(* dictionary.rs *)

I32_MAX == 2147483647
I32_MIN == -2147483647 - 1

(* i32 `a + b` for a >= 0: None where the sum leaves the i32 range and      *)
(* overflow checks are on (the addition panics), the wrapped sum otherwise *)
i32_add(a, b, overflow_checks) ==
    IF b > I32_MAX - a
    THEN (IF overflow_checks THEN None ELSE Some(I32_MIN + (a - (I32_MAX - b) - 1)))
    ELSE Some(a + b)

(* i32 `a % n` for n > 0: the remainder has the sign of a *)
i32_rem(a, n) ==
    LET r == a % n
    IN IF a < 0 /\ r # 0 THEN r - n ELSE r

(* the decimal digits of -n, for n <= 0 *)
RECURSIVE decimal_digits(_)
decimal_digits(n) ==
    LET d == (10 - (n % 10)) % 10
        q == (n + d) \div 10
    IN (IF q = 0 THEN <<>> ELSE decimal_digits(q)) \o <<Digits[d + 1]>>

(* i32 Display *)
i32_to_string(n) == IF n < 0 THEN <<"-">> \o decimal_digits(n) ELSE decimal_digits(-n)

words ==
    <<<<"t", "h", "e">>, <<"q", "u", "i", "c", "k">>,
      <<"b", "r", "o", "w", "n">>, <<"f", "o", "x">>,
      <<"j", "u", "m", "p", "s">>, <<"o", "v", "e", "r">>,
      <<"l", "a", "z", "y">>, <<"d", "o", "g">>, <<"a", "n", "d">>,
      <<"r", "u", "n", "s">>, <<"t", "h", "r", "o", "u", "g", "h">>,
      <<"f", "o", "r", "e", "s", "t">>, <<"w", "i", "t", "h">>,
      <<"g", "r", "e", "a", "t">>, <<"s", "p", "e", "e", "d">>,
      <<"w", "h", "i", "l", "e">>, <<"b", "i", "r", "d", "s">>,
      <<"s", "i", "n", "g">>, <<"i", "n">>, <<"t", "r", "e", "e", "s">>,
      <<"a", "b", "o", "v", "e">>, <<"g", "r", "o", "u", "n", "d">>,
      <<"w", "h", "e", "r", "e">>, <<"f", "l", "o", "w", "e", "r", "s">>,
      <<"b", "l", "o", "o", "m">>, <<"d", "u", "r", "i", "n", "g">>,
      <<"s", "p", "r", "i", "n", "g">>, <<"s", "e", "a", "s", "o", "n">>,
      <<"c", "r", "e", "a", "t", "i", "n", "g">>,
      <<"b", "e", "a", "u", "t", "i", "f", "u", "l">>,
      <<"s", "c", "e", "n", "e", "s">>, <<"t", "h", "a", "t">>,
      <<"i", "n", "s", "p", "i", "r", "e">>,
      <<"w", "r", "i", "t", "e", "r", "s">>, <<"t", "o">>,
      <<"c", "r", "a", "f", "t">>, <<"p", "o", "e", "m", "s">>,
      <<"u", "s", "i", "n", "g">>, <<"v", "a", "r", "i", "o", "u", "s">>,
      <<"t", "e", "c", "h", "n", "i", "q", "u", "e", "s">>>>


(* words.iter().position(|&w| w == word_lower) *)
words_position(word_lower) ==
    IF \E i \in 1..Len(words) : words[i] = word_lower
    THEN Some((CHOOSE i \in 1..Len(words) :
                  words[i] = word_lower /\ \A j \in 1..(i - 1) : words[j] # word_lower) - 1)
    ELSE None

(* the outcome of a call that may panic *)
Returned(v) == [panic |-> FALSE, value |-> v]
Panicked == [panic |-> TRUE, value |-> None]

get_n_plus_word(word, offset, overflow_checks) ==
    LET word_lower == str_to_lowercase(word)
        index == words_position(word_lower)
    IN IF index # None
       THEN LET sum == i32_add(index[1], offset, overflow_checks)
            IN IF sum = None THEN Panicked
               ELSE LET new_index == i32_rem(sum[1], Len(words))
                    IN IF new_index < 0 THEN Panicked
                       ELSE Returned(Some(words[new_index + 1]))
       ELSE Returned(Some(word \o <<"+">> \o i32_to_string(offset)))

----------------------------------------------------------------------------

(* constraints/n_plus_7.rs *)

(* f64 a / b as serialised by serde_json: 0.0 / 0.0 is NaN, written null *)
JRatio(a, b) == IF b = 0 THEN JNull ELSE [t |-> "num", lit |-> "", s |-> <<a, b>>, n |-> 0]

(* [String]::join(sep) *)
RECURSIVE str_join(_, _)
str_join(strs, sep) ==
    IF strs = <<>> THEN <<>>
    ELSE IF Len(strs) = 1 THEN strs[1]
    ELSE Head(strs) \o sep \o str_join(Tail(strs), sep)

(* the loop over the words: the transformed words and the replacements     *)
(* made, or a panic of the lookup                                          *)
RECURSIVE n_plus_7_loop(_, _, _, _, _)
n_plus_7_loop(ws, offset, overflow_checks, transformed_words, replacements_made) ==
    IF ws = <<>>
    THEN [panic |-> FALSE, transformed_words |-> transformed_words,
          replacements_made |-> replacements_made]
    ELSE LET word == Head(ws)
             looked == get_n_plus_word(word, offset, overflow_checks)
         IN IF looked.panic
            THEN [panic |-> TRUE, transformed_words |-> transformed_words,
                  replacements_made |-> replacements_made]
            ELSE IF looked.value # None
            THEN n_plus_7_loop(Tail(ws), offset, overflow_checks,
                               Append(transformed_words, looked.value[1]),
                               replacements_made + 1)
            ELSE n_plus_7_loop(Tail(ws), offset, overflow_checks,
                               Append(transformed_words, word), replacements_made)

n_plus_7_transform(text, offset, overflow_checks) ==
    LET ws == split_whitespace(text)
        word_count == Len(ws)
        done == n_plus_7_loop(ws, offset, overflow_checks, <<>>, 0)
    IN IF done.panic THEN Panicked
       ELSE Returned(Ok(ConstraintResult(
                TRUE,
                Some(str_join(done.transformed_words, <<"sp">>)),
                <<>>,
                <<Fmt("Try different offset values for varied results", <<>>, <<>>),
                  Fmt("Focus on noun-heavy text for better transformation", <<>>, <<>>)>>,
                [offset |-> JNum(offset),
                 original_words |-> JNum(word_count),
                 replacements_made |-> JNum(done.replacements_made),
                 replacement_rate |-> JRatio(done.replacements_made, word_count)])))

----------------------------------------------------------------------------

(* validators.rs *)

validate_text_length(text, min_length, max_length) ==
    LET text_length == str_len(text)
        short == IF text_length < min_length
                 THEN <<Violation(0, text_length,
                                  Fmt("Text too short", <<>>, <<text_length, min_length>>),
                                  Some(Fmt("Add more characters", <<>>, <<min_length - text_length>>)))>>
                 ELSE <<>>
        long == IF max_length # None /\ text_length > max_length[1]
                THEN <<Violation(max_length[1], text_length - max_length[1],
                                 Fmt("Text too long", <<>>, <<text_length, max_length[1]>>),
                                 Some(Fmt("Remove characters", <<>>, <<text_length - max_length[1]>>)))>>
                ELSE <<>>
        violations == short \o long
        is_empty == violations = <<>>
    IN Ok(ConstraintResult(
           is_empty,
           Some(Fmt("Text length", <<>>, <<text_length>>)),
           violations,
           IF is_empty THEN <<Fmt("Text length is within bounds", <<>>, <<>>)>>
                       ELSE <<Fmt("Adjust text length to meet requirements", <<>>, <<>>)>>,
           [constraint_type |-> JLit("length_validation"),
            current_length |-> JNum(text_length),
            min_length |-> JNum(min_length),
            max_length |-> JOpt(max_length)]))

validate_word_count(text, min_words, max_words) ==
    LET word_count == split_whitespace_count(text)
        few == IF word_count < min_words
               THEN <<Violation(0, str_len(text),
                                Fmt("Too few words", <<>>, <<word_count, min_words>>),
                                Some(Fmt("Add more words", <<>>, <<min_words - word_count>>)))>>
               ELSE <<>>
        many == IF max_words # None /\ word_count > max_words[1]
                THEN <<Violation(0, str_len(text),
                                 Fmt("Too many words", <<>>, <<word_count, max_words[1]>>),
                                 Some(Fmt("Remove words", <<>>, <<word_count - max_words[1]>>)))>>
                ELSE <<>>
        violations == few \o many
        is_empty == violations = <<>>
    IN Ok(ConstraintResult(
           is_empty,
           Some(Fmt("Word count", <<>>, <<word_count>>)),
           violations,
           IF is_empty THEN <<Fmt("Word count is within bounds", <<>>, <<>>)>>
                       ELSE <<Fmt("Adjust word count to meet requirements", <<>>, <<>>)>>,
           [constraint_type |-> JLit("word_count_validation"),
            current_words |-> JNum(word_count),
            min_words |-> JNum(min_words),
            max_words |-> JOpt(max_words)]))

----------------------------------------------------------------------------
(* builder.rs: ConstraintWorkflowBuilder *)

ValidationConfig_default ==
    [min_length |-> None, max_length |-> None, min_words |-> None, max_words |-> None]

ConstraintWorkflowBuilder_new ==
    [constraints |-> <<>>, validation_config |-> ValidationConfig_default]

with_univocalic(b, allowed_vowel) ==
    [b EXCEPT !.constraints =
        Append(@, [name |-> "univocalic",
                   config |-> [allowed_vowel |-> JStr(<<allowed_vowel>>)]])]

with_length_limits_min_only(b, min, max) ==
    [b EXCEPT !.validation_config.min_length = min]

with_length_limits(b, min, max) ==
    [b EXCEPT !.validation_config.min_length = min,
              !.validation_config.max_length = max]

with_word_limits(b, min, max) ==
    [b EXCEPT !.validation_config.min_words = min,
              !.validation_config.max_words = max]

with_constraint(b, name, cfg) ==
    [b EXCEPT !.constraints = Append(@, [name |-> name, config |-> cfg])]

build(b) ==
    Ok([constraints |-> b.constraints, validation_config |-> b.validation_config])

----------------------------------------------------------------------------
(* mod.rs: OulipoService *)

OulipoService_check_univocalic(text, vowel) ==
    IF first_char(vowel) # None
    THEN univocalic_check(text, first_char(vowel)[1])
    ELSE Ok(ConstraintResult(
             FALSE, None,
             <<Violation(0, 0, Fmt("Invalid vowel parameter", <<>>, <<>>),
                         Some(Fmt("Provide a single vowel character", <<>>, <<>>)))>>,
             <<Fmt("Provide a single vowel character", <<>>, <<>>)>>,
             JNull))

OulipoService_validate_text_length(text, min_length, max_length) ==
    validate_text_length(text, min_length, max_length)

OulipoService_validate_word_count(text, min_words, max_words) ==
    validate_word_count(text, min_words, max_words)

(* a step of a loop whose body ends in `?`: results so far, or the error *)
PushResult(acc, r) ==
    IF ~acc.ok THEN acc
    ELSE IF ~r.ok THEN r
    ELSE Ok(Append(acc.value, r.value))

validate_with_config(text, vc) ==
    LET r1 == IF vc.min_length # None
              THEN PushResult(Ok(<<>>),
                     OulipoService_validate_text_length(text, vc.min_length[1], vc.max_length))
              ELSE Ok(<<>>)
        r2 == IF vc.min_words # None
              THEN PushResult(r1,
                     OulipoService_validate_word_count(text, vc.min_words[1], vc.max_words))
              ELSE r1
    IN r2

unknown_constraint_result(name) ==
    Ok(ConstraintResult(
         FALSE,
         Some(Fmt("Unknown constraint", <<name>>, <<>>)),
         <<>>,
         <<Fmt("Check constraint name", <<>>, <<>>)>>,
         [error |-> JLit("unknown_constraint")]))

workflow_entry_abort(text, entry) ==
    IF entry.name = "univocalic"
    THEN LET s == as_str(entry.config.allowed_vowel)
             c == IF s = None THEN None ELSE first_char(s[1])
             vowel == IF c = None THEN "a" ELSE c[1]
         IN OulipoService_check_univocalic(text, <<vowel>>)
    ELSE Err("InvalidConfig", Fmt("Unknown constraint", <<entry.name>>, <<>>))

(* one iteration of the `for (name, constraint_config)` loop *)
workflow_entry(text, entry) ==
    IF entry.name = "univocalic"
    THEN LET s == as_str(entry.config.allowed_vowel)
             c == IF s = None THEN None ELSE first_char(s[1])
             vowel == IF c = None THEN "a" ELSE c[1]
         IN OulipoService_check_univocalic(text, <<vowel>>)
    ELSE unknown_constraint_result(entry.name)

RECURSIVE workflow_constraints(_, _, _)
workflow_constraints(text, constraints, acc) ==
    IF constraints = <<>> \/ ~acc.ok THEN acc
    ELSE workflow_constraints(text, Tail(constraints),
                              PushResult(acc, workflow_entry(text, Head(constraints))))

RECURSIVE count_success(_)
count_success(results) ==
    IF results = <<>> THEN 0
    ELSE (IF Head(results).success THEN 1 ELSE 0) + count_success(Tail(results))

generate_workflow_summary_passed(results) ==
    LET total == Len(results)
        passed == count_success(results)
    IN IF passed = 0
       THEN Fmt("All constraints satisfied", <<>>, <<total>>)
       ELSE Fmt("constraints failed", <<>>, <<passed, total>>)

generate_workflow_summary(results) ==
    LET total == Len(results)
        passed == count_success(results)
        failed == total - passed
    IN IF failed = 0
       THEN Fmt("All constraints satisfied", <<>>, <<total>>)
       ELSE Fmt("constraints failed", <<>>, <<failed, total>>)

RECURSIVE all_success(_)
all_success(results) ==
    IF results = <<>> THEN TRUE
    ELSE IF ~Head(results).success THEN FALSE
    ELSE all_success(Tail(results))

check_with_workflow_validation_first(text, cfg) ==
    LET named == workflow_constraints(text, cfg.constraints, Ok(<<>>))
        validation_results == validate_with_config(text, cfg.validation_config)
    IN IF ~named.ok THEN named
       ELSE IF ~validation_results.ok THEN validation_results
       ELSE LET constraint_results == validation_results.value \o named.value
            IN Ok([success |-> all_success(constraint_results),
                   constraint_results |-> constraint_results,
                   summary |-> generate_workflow_summary(constraint_results)])

check_with_workflow(text, cfg) ==
    LET named == workflow_constraints(text, cfg.constraints, Ok(<<>>))
        validation_results == validate_with_config(text, cfg.validation_config)
    IN IF ~named.ok THEN named
       ELSE IF ~validation_results.ok THEN validation_results
       ELSE LET constraint_results == named.value \o validation_results.value
            IN Ok([success |-> all_success(constraint_results),
                   constraint_results |-> constraint_results,
                   summary |-> generate_workflow_summary(constraint_results)])

----------------------------------------------------------------------------
(* builder.rs: ConstraintPresets; mod.rs: OulipoService::check_with_preset *)

ConstraintPresets_strict_writing ==
    with_word_limits(
        with_length_limits(ConstraintWorkflowBuilder_new, Some(100), Some(1000)),
        Some(10), Some(200))

ConstraintPresets_minimal ==
    with_word_limits(
        with_length_limits(ConstraintWorkflowBuilder_new, Some(10), Some(100)),
        Some(3), Some(20))

ConstraintPresets_experimental ==
    with_length_limits(with_univocalic(ConstraintWorkflowBuilder_new, "e"), Some(50), None)

(* `build()?` followed by check_with_workflow *)
run_preset(text, built) ==
    IF ~built.ok THEN built ELSE check_with_workflow(text, built.value)

check_with_preset_fallback(text, preset_name) ==
    CASE preset_name = "strict" -> run_preset(text, build(ConstraintPresets_strict_writing))
      [] preset_name = "minimal" -> run_preset(text, build(ConstraintPresets_minimal))
      [] preset_name = "experimental" -> run_preset(text, build(ConstraintPresets_experimental))
      [] OTHER -> run_preset(text, build(ConstraintPresets_minimal))

check_with_preset(text, preset_name) ==
    CASE preset_name = "strict" -> run_preset(text, build(ConstraintPresets_strict_writing))
      [] preset_name = "minimal" -> run_preset(text, build(ConstraintPresets_minimal))
      [] preset_name = "experimental" -> run_preset(text, build(ConstraintPresets_experimental))
      [] OTHER -> Err("Error", Fmt("Unknown preset", <<preset_name>>, <<>>))

----------------------------------------------------------------------------
(* commands/oulipo.rs: the validate_text_length and validate_word_count    *)
(* commands                                                                *)

(* text.chars().count() *)
chars_count(text) == Len(text)

cmd_validate_text_length(text, min_length, max_length) ==
    LET length == chars_count(text)
        short == IF min_length # None /\ length < min_length[1]
                 THEN <<Fmt("Text too short: characters (minimum: )", <<>>,
                            <<length, min_length[1]>>)>>
                 ELSE <<>>
        long == IF max_length # None /\ length > max_length[1]
                THEN <<Fmt("Text too long: characters (maximum: )", <<>>,
                           <<length, max_length[1]>>)>>
                ELSE <<>>
        violations == short \o long
        is_valid == violations = <<>>
    IN Ok(ConstraintResult(
           is_valid,
           None,
           [k \in 1..Len(violations) |-> Violation(0, 0, violations[k], None)],
           IF is_valid THEN <<>>
           ELSE <<Fmt("Adjust text length to meet requirements", <<>>, <<>>)>>,
           JNull))

cmd_validate_word_count(text, min_words, max_words) ==
    LET word_count == split_whitespace_count(text)
        few == IF min_words # None /\ word_count < min_words[1]
               THEN <<Fmt("Too few words: (minimum: )", <<>>, <<word_count, min_words[1]>>)>>
               ELSE <<>>
        many == IF max_words # None /\ word_count > max_words[1]
                THEN <<Fmt("Too many words: (maximum: )", <<>>, <<word_count, max_words[1]>>)>>
                ELSE <<>>
        violations == few \o many
        is_valid == violations = <<>>
    IN Ok(ConstraintResult(
           is_valid,
           Some(Fmt("Word count", <<>>, <<word_count>>)),
           [k \in 1..Len(violations) |->
               Violation(0, 0, violations[k],
                         Some(Fmt("Adjust word count to meet requirements", <<>>, <<>>)))],
           IF is_valid THEN <<>>
           ELSE <<Fmt("Adjust word count to meet requirements", <<>>, <<>>)>>,
           JNull))

----------------------------------------------------------------------------

(* registry.rs: ConstraintFactory, UnivocalicFactory, ConstraintRegistry *)

UnivocalicFactory == [name |-> "univocalic", kind |-> "UnivocalicFactory"]

UnivocalicFactory_create_lowercased(cfg) ==
    LET s == as_str(cfg.allowed_vowel)
        vowel == IF s = None THEN None ELSE first_char(s[1])
    IN IF vowel = None
       THEN Err("InvalidConfig", Fmt("Missing 'allowed_vowel' in config", <<>>, <<>>))
       ELSE UnivocalicConstraint_new(Head(to_lowercase(vowel[1])))

UnivocalicFactory_create(cfg) ==
    LET s == as_str(cfg.allowed_vowel)
        vowel == IF s = None THEN None ELSE first_char(s[1])
    IN IF vowel = None
       THEN Err("InvalidConfig", Fmt("Missing 'allowed_vowel' in config", <<>>, <<>>))
       ELSE UnivocalicConstraint_new(vowel[1])

(* a factory supplied by a caller: it accepts every configuration *)
CallerFactory_create(cfg) == Ok([allowed_vowel |-> "e"])

Factory_create(f, cfg) ==
    IF f.kind = "UnivocalicFactory" THEN UnivocalicFactory_create(cfg)
    ELSE CallerFactory_create(cfg)

Factory_description(f) ==
    IF f.kind = "UnivocalicFactory" THEN "Text must use only one vowel throughout"
    ELSE "caller-supplied"

Factory_config_schema(f) ==
    IF f.kind = "UnivocalicFactory"
    THEN [type |-> "object", required |-> <<"allowed_vowel">>,
          pattern |-> "^[aeiouAEIOU]$"]
    ELSE [type |-> "object", required |-> <<>>, pattern |-> ""]

(* HashMap::get *)
map_get(m, key) ==
    IF \E i \in 1..Len(m) : m[i].key = key
    THEN Some((m[CHOOSE i \in 1..Len(m) : m[i].key = key]).factory)
    ELSE None

map_insert_append(m, key, f) == Append(m, [key |-> key, factory |-> f])

(* HashMap::insert: the value of a present key is replaced *)
map_insert(m, key, f) ==
    IF \E i \in 1..Len(m) : m[i].key = key
    THEN [i \in 1..Len(m) |-> IF m[i].key = key THEN [key |-> key, factory |-> f] ELSE m[i]]
    ELSE Append(m, [key |-> key, factory |-> f])

register(reg, f) == map_insert(reg, f.name, f)

ConstraintRegistry_new == register(<<>>, UnivocalicFactory)

create_constraint(reg, name, cfg) ==
    LET factory == map_get(reg, name)
    IN IF factory = None
       THEN Err("InvalidConfig", Fmt("Unknown constraint", <<name>>, <<>>))
       ELSE Factory_create(factory[1], cfg)

available_constraints(reg) == [i \in 1..Len(reg) |-> reg[i].key]

ConstraintInfo(f) ==
    [name |-> f.name, description |-> Factory_description(f),
     schema |-> Factory_config_schema(f)]

get_config_schema(reg, name) ==
    LET f == map_get(reg, name)
    IN IF f = None THEN None ELSE Some(Factory_config_schema(f[1]))

get_constraint_info(reg, name) ==
    LET f == map_get(reg, name)
    IN IF f = None THEN None ELSE Some(ConstraintInfo(f[1]))

list_constraints(reg) == [i \in 1..Len(reg) |-> ConstraintInfo(reg[i].factory)]

----------------------------------------------------------------------------
(* registry.rs: BatchConstraintChecker *)

BatchConstraintChecker_new == <<>>

add_constraint(b, c) == Append(b, c)

RECURSIVE check_all_loop_stop(_, _, _, _)
check_all_loop_stop(constraints, text, results, evaluated) ==
    IF constraints = <<>> THEN [res |-> Ok(results), evaluated |-> evaluated]
    ELSE LET r == Constraint_check(Head(constraints), text)
         IN IF ~r.ok THEN [res |-> r, evaluated |-> evaluated + 1]
            ELSE IF ~r.value.success
                 THEN [res |-> Ok(Append(results, r.value)), evaluated |-> evaluated + 1]
            ELSE check_all_loop_stop(Tail(constraints), text,
                                     Append(results, r.value), evaluated + 1)

(* check_all: res is the returned value, evaluated the number of           *)
(* constraint.check calls made                                             *)
RECURSIVE check_all_loop(_, _, _, _)
check_all_loop(constraints, text, results, evaluated) ==
    IF constraints = <<>> THEN [res |-> Ok(results), evaluated |-> evaluated]
    ELSE LET r == Constraint_check(Head(constraints), text)
         IN IF ~r.ok THEN [res |-> r, evaluated |-> evaluated + 1]
            ELSE check_all_loop(Tail(constraints), text,
                                Append(results, r.value), evaluated + 1)

check_all(b, text) == check_all_loop(b, text, <<>>, 0)

RECURSIVE check_all_pass_loop_eager(_, _, _)
check_all_pass_loop_eager(constraints, text, evaluated) ==
    IF constraints = <<>> THEN [res |-> Ok(TRUE), evaluated |-> evaluated]
    ELSE LET r == Constraint_check(Head(constraints), text)
             rest == check_all_pass_loop_eager(Tail(constraints), text, evaluated + 1)
         IN IF ~r.ok THEN [res |-> r, evaluated |-> evaluated + 1]
            ELSE IF ~rest.res.ok THEN rest
            ELSE [res |-> Ok(r.value.success /\ rest.res.value),
                  evaluated |-> rest.evaluated]

RECURSIVE check_all_pass_loop(_, _, _)
check_all_pass_loop(constraints, text, evaluated) ==
    IF constraints = <<>> THEN [res |-> Ok(TRUE), evaluated |-> evaluated]
    ELSE LET r == Constraint_check(Head(constraints), text)
         IN IF ~r.ok THEN [res |-> r, evaluated |-> evaluated + 1]
            ELSE IF ~r.value.success THEN [res |-> Ok(FALSE), evaluated |-> evaluated + 1]
            ELSE check_all_pass_loop(Tail(constraints), text, evaluated + 1)

check_all_pass(b, text) == check_all_pass_loop(b, text, 0)

----------------------------------------------------------------------------
(* ai/service.rs: AIService; ai/providers.rs: the provider constructors.   *)
(* The fields temperature, max_tokens and timeout_seconds of AISettings    *)
(* take no part in update_settings and are left out.                       *)

LocalProvider_new == [kind |-> "LocalProvider", api_key |-> None, model |-> None]

OpenAIProvider_new(api_key) ==
    [kind |-> "OpenAIProvider", api_key |-> Some(api_key), model |-> Some("gpt-4")]

OpenAIProvider_with_model(provider, model) == [provider EXCEPT !.model = Some(model)]

AnthropicProvider_new(api_key) ==
    [kind |-> "AnthropicProvider", api_key |-> Some(api_key),
     model |-> Some("claude-3-sonnet-20240229")]

AISettings_default == [provider |-> "OpenAI", api_key |-> None, model |-> Some("gpt-4")]

AIService_new == [provider |-> LocalProvider_new, settings |-> AISettings_default]

(* the `match &settings.provider` of update_settings *)
provider_for(settings) ==
    CASE settings.provider = "OpenAI" ->
           IF settings.api_key # None
           THEN LET provider == OpenAIProvider_new(settings.api_key[1])
                IN IF settings.model # None
                   THEN OpenAIProvider_with_model(provider, settings.model[1])
                   ELSE provider
           ELSE LocalProvider_new
      [] settings.provider = "Anthropic" ->
           IF settings.api_key # None
           THEN AnthropicProvider_new(settings.api_key[1])
           ELSE LocalProvider_new
      [] OTHER -> LocalProvider_new

(* commands/state.rs: AppServices.ai is a std::sync::Mutex<AIService>;     *)
(* lock() returns once no guard is alive (and a lock that never waits)     *)
mutex_acquirable_always(lock) == TRUE

mutex_acquirable(lock) == lock = None

Tasks == {"t1", "t2"}

TaskIdle == [pc |-> "idle", cmd |-> "none", settings |-> None, clone |-> None, calls |-> 0]

-----------------------------------------------------------------------------
(* generators/combinatorial.rs: generate_spiral_combination.  A word is    *)
(* named by its position in the input; a line is the list of positions     *)
(* pushed to line_words.                                                   *)

(* std::cmp::max(1, words.len() / 3) *)
spiral_step(n) == IF n \div 3 >= 1 THEN n \div 3 ELSE 1

(* used.iter().any(|&u| !u) *)
any_unused(used) == \E i \in 1..Len(used) : ~used[i]

(* the condition of the inner `while` (and that condition without its      *)
(* any-unused conjunct)                                                    *)
skip_condition_used_only(used, current_index) == used[current_index + 1]

skip_condition(used, current_index) == used[current_index + 1] /\ any_unused(used)

SpiralIdle ==
    [pc |-> "idle", n |-> 0, lines |-> <<>>, used |-> <<>>, current_index |-> 0,
     step |-> 0, line_words |-> <<>>, k |-> 0]

-----------------------------------------------------------------------------

(* Initial state: a fresh builder, a fresh registry, an empty batch. *)

NoDeclared == [constraints |-> <<>>, length |-> <<None, None>>, words |-> <<None, None>>]

Init ==
    /\ builder = Some(ConstraintWorkflowBuilder_new)
    /\ declared = NoDeclared
    /\ config = None
    /\ wfText = <<>>
    /\ wfOut = None
    /\ registry = ConstraintRegistry_new
    /\ registered = {}
    /\ batch = BatchConstraintChecker_new
    /\ regOut = [op |-> "none"]
    /\ textOut = [op |-> "none"]
    /\ aiService = AIService_new
    /\ aiLock = None
    /\ task = [t \in Tasks |-> TaskIdle]
    /\ spiral = SpiralIdle

----------------------------------------------------------------------------
(* The workflow specification: a builder is filled by with_* calls, built  *)
(* into a configuration, and the configuration is run against a text.      *)

WfChars == {"a", "e", "sp"}
WfTexts == UNION {[1..n -> WfChars] : n \in 0..MaxText}

BuilderVowels == {"e"}
CustomNames == {"univocalic", "lipogram"}
CustomConfigs == {[allowed_vowel |-> JNull]}

Bounds == {None} \cup {Some(n) : n \in 0..MaxBound}
WordBounds == {None, Some(0), Some(1)}

(* OulipoService::create_workflow; the previous workflow is dropped *)
CreateWorkflow ==
    /\ config # None
    /\ builder' = Some(ConstraintWorkflowBuilder_new)
    /\ declared' = NoDeclared
    /\ config' = None
    /\ wfText' = <<>>
    /\ wfOut' = None
    /\ UNCHANGED regVars
    /\ UNCHANGED txVars
    /\ UNCHANGED <<aiVars, spVars>>

WithUnivocalic ==
    /\ builder # None
    /\ Len(builder[1].constraints) < MaxConstraints
    /\ \E v \in BuilderVowels :
          /\ builder' = Some(with_univocalic(builder[1], v))
          /\ declared' = [declared EXCEPT !.constraints =
                 Append(@, [name |-> "univocalic",
                            config |-> [allowed_vowel |-> JStr(<<v>>)]])]
    /\ UNCHANGED <<config, wfText, wfOut>>
    /\ UNCHANGED regVars
    /\ UNCHANGED txVars
    /\ UNCHANGED <<aiVars, spVars>>

WithConstraint ==
    /\ builder # None
    /\ Len(builder[1].constraints) < MaxConstraints
    /\ \E n \in CustomNames, c \in CustomConfigs :
          /\ builder' = Some(with_constraint(builder[1], n, c))
          /\ declared' = [declared EXCEPT !.constraints =
                 Append(@, [name |-> n, config |-> c])]
    /\ UNCHANGED <<config, wfText, wfOut>>
    /\ UNCHANGED regVars
    /\ UNCHANGED txVars
    /\ UNCHANGED <<aiVars, spVars>>

WithLengthLimits ==
    /\ builder # None
    /\ \E min \in Bounds, max \in Bounds :
          /\ builder' = Some(with_length_limits(builder[1], min, max))
          /\ declared' = [declared EXCEPT !.length = <<min, max>>]
    /\ UNCHANGED <<config, wfText, wfOut>>
    /\ UNCHANGED regVars
    /\ UNCHANGED txVars
    /\ UNCHANGED <<aiVars, spVars>>

WithWordLimits ==
    /\ builder # None
    /\ \E min \in WordBounds, max \in WordBounds :
          /\ builder' = Some(with_word_limits(builder[1], min, max))
          /\ declared' = [declared EXCEPT !.words = <<min, max>>]
    /\ UNCHANGED <<config, wfText, wfOut>>
    /\ UNCHANGED regVars
    /\ UNCHANGED txVars
    /\ UNCHANGED <<aiVars, spVars>>

(* build(self) consumes the builder *)
Build ==
    /\ builder # None
    /\ config' = Some(build(builder[1]))
    /\ builder' = None
    /\ UNCHANGED <<declared, wfText, wfOut>>
    /\ UNCHANGED regVars
    /\ UNCHANGED txVars
    /\ UNCHANGED <<aiVars, spVars>>

(* each built configuration is run once, against any text *)
CheckWithWorkflow ==
    /\ config # None
    /\ config[1].ok
    /\ wfOut = None
    /\ \E t \in WfTexts :
          /\ wfText' = t
          /\ wfOut' = Some(check_with_workflow(t, config[1].value))
    /\ UNCHANGED <<builder, declared, config>>
    /\ UNCHANGED regVars
    /\ UNCHANGED txVars
    /\ UNCHANGED <<aiVars, spVars>>

NextWorkflow ==
    \/ CreateWorkflow
    \/ WithUnivocalic
    \/ WithConstraint
    \/ WithLengthLimits
    \/ WithWordLimits
    \/ Build
    \/ CheckWithWorkflow

SpecWorkflow == Init /\ [][NextWorkflow]_vars

----------------------------------------------------------------------------
(* Properties of workflow execution and of the builder (SpecWorkflow). *)

WfDone == wfOut # None

WfCfg == config[1].value

WfRes == wfOut[1].value

RemoveAt(s, i) == SubSeq(s, 1, i - 1) \o SubSeq(s, i + 1, Len(s))

FailedEntries(rs) == {i \in 1..Len(rs) : ~rs[i].success}

(* C1: check_with_workflow returns a WorkflowResult whose success is true  *)
(* iff every entry of constraint_results has success = true, and whose     *)
(* summary is "All N constraints satisfied" when no entry failed and       *)
(* "k/N constraints failed" otherwise, k being the number of failed        *)
(* entries and N the number of entries.                                    *)
C1_WorkflowAggregation ==
    WfDone =>
        /\ wfOut[1].ok
        /\ LET rs == WfRes.constraint_results
               k == Cardinality(FailedEntries(rs))
               N == Len(rs)
           IN /\ WfRes.success <=> (\A i \in 1..N : rs[i].success)
              /\ k = 0 => WfRes.summary = Fmt("All constraints satisfied", <<>>, <<N>>)
              /\ k > 0 => WfRes.summary = Fmt("constraints failed", <<>>, <<k, N>>)

C1_Witness ==
    /\ WfDone
    /\ wfOut[1].ok
    /\ Len(WfRes.constraint_results) = 4
    /\ Cardinality(FailedEntries(WfRes.constraint_results)) = 1

(* what a caller can tell about a result: which configured entry made it *)
ResultOfEntry(r, entry) ==
    IF entry.name = "univocalic"
    THEN /\ "allowed_vowel" \in DOMAIN r.metadata
         /\ as_str(entry.config.allowed_vowel) # None
              => r.metadata.allowed_vowel = entry.config.allowed_vowel
    ELSE r.result = Some(Fmt("Unknown constraint", <<entry.name>>, <<>>))

IsValidationResult(r) == "constraint_type" \in DOMAIN r.metadata

(* C2: the first n entries of constraint_results are the results of the n  *)
(* configured constraints, in configuration order, and every entry after   *)
(* them is a length or word-count validation result; a workflow with a     *)
(* named constraint has a non-empty constraint_results and summary.        *)
C2_ResultOrder ==
    WfDone =>
        /\ wfOut[1].ok
        /\ LET rs == WfRes.constraint_results
               cs == WfCfg.constraints
               n == Len(cs)
           IN /\ Len(rs) >= n
              /\ \A i \in 1..n : ResultOfEntry(rs[i], cs[i])
              /\ \A i \in (n + 1)..Len(rs) : IsValidationResult(rs[i])
              /\ Len(rs) <= n + 2
              /\ n >= 1 => (rs # <<>> /\ WfRes.summary.msg # "")

C2_Witness ==
    /\ WfDone
    /\ wfOut[1].ok
    /\ Len(WfCfg.constraints) = 2
    /\ WfCfg.constraints[1].name # WfCfg.constraints[2].name
    /\ Len(WfRes.constraint_results) = 4

IsSyntheticFailure(r, name) ==
    /\ ~r.success
    /\ r.result = Some(Fmt("Unknown constraint", <<name>>, <<>>))

(* C3: with an unrecognized constraint name at position i the call still   *)
(* returns Ok, entry i is a synthetic failing result, the other entries    *)
(* are what the workflow without entry i yields, and success is false.     *)
C3_UnknownNameDegrades ==
    WfDone =>
        \A i \in 1..Len(WfCfg.constraints) :
            WfCfg.constraints[i].name # "univocalic" =>
                /\ wfOut[1].ok
                /\ IsSyntheticFailure(WfRes.constraint_results[i], WfCfg.constraints[i].name)
                /\ ~WfRes.success
                /\ LET without == [WfCfg EXCEPT !.constraints = RemoveAt(@, i)]
                       other == check_with_workflow(wfText, without)
                   IN /\ other.ok
                      /\ RemoveAt(WfRes.constraint_results, i) = other.value.constraint_results

C3_Witness ==
    /\ WfDone
    /\ wfOut[1].ok
    /\ Len(WfCfg.constraints) = 2
    /\ WfCfg.constraints[1].name = "lipogram"
    /\ WfCfg.constraints[2].name = "univocalic"
    /\ Len(WfRes.constraint_results) = 4
    /\ FailedEntries(WfRes.constraint_results) = {1}

BoundsHold(text, vc) ==
    /\ vc.min_length # None => vc.min_length[1] <= str_len(text)
    /\ vc.max_length # None => str_len(text) <= vc.max_length[1]
    /\ vc.min_words # None => vc.min_words[1] <= split_whitespace_count(text)
    /\ vc.max_words # None => split_whitespace_count(text) <= vc.max_words[1]

(* C4: for a workflow with no named constraints, check_with_workflow       *)
(* succeeds iff every bound of the ValidationConfig that is present holds  *)
(* (inclusively); each bound is enforced whether or not another is set.    *)
C4_BoundsIndependent ==
    (WfDone /\ WfCfg.constraints = <<>>) =>
        /\ wfOut[1].ok
        /\ WfRes.success <=> BoundsHold(wfText, WfCfg.validation_config)

(* C10: build() never fails, and the builder and the built configuration   *)
(* hold exactly the constraint pairs added by with_univocalic and          *)
(* with_constraint, in call order, and the bounds of the last              *)
(* with_length_limits and with_word_limits calls.                          *)
MatchesDeclared(b) ==
    /\ b.constraints = declared.constraints
    /\ b.validation_config.min_length = declared.length[1]
    /\ b.validation_config.max_length = declared.length[2]
    /\ b.validation_config.min_words = declared.words[1]
    /\ b.validation_config.max_words = declared.words[2]

C10_BuilderFrame ==
    /\ builder # None => MatchesDeclared(builder[1])
    /\ config # None => (config[1].ok /\ MatchesDeclared(config[1].value))

C10_Witness ==
    /\ config # None
    /\ config[1].ok
    /\ Len(WfCfg.constraints) = 2
    /\ WfCfg.constraints[1].name = "lipogram"
    /\ WfCfg.constraints[2].name = "univocalic"
    /\ WfCfg.validation_config.max_length # None
    /\ WfCfg.validation_config.min_length = None
    /\ WfCfg.validation_config.min_words # None

----------------------------------------------------------------------------
(* The registry specification: callers register factories, create          *)
(* constraints by name and check a created constraint.                     *)

CallerFactories ==
    {[name |-> n, kind |-> "CallerFactory"] : n \in {"univocalic", "lipogram"}}

ProbeNames == {"univocalic", "lipogram", "palindrome"}

VowelStrings ==
    {<<>>, <<"a">>, <<"A">>, <<"x">>, <<"I_dot">>, <<"a", "x">>, <<"x", "a">>}

FactoryConfigs ==
    {[allowed_vowel |-> JNull], [allowed_vowel |-> JNum(5)]}
        \cup {[allowed_vowel |-> JStr(s)] : s \in VowelStrings}

RegChars == {"a", "E", "b"}
RegTexts == UNION {[1..n -> RegChars] : n \in 0..MaxText}

BatchConstraints == {[allowed_vowel |-> v] : v \in {"a", "e"}}

Register ==
    /\ \E f \in CallerFactories :
          /\ registry' = register(registry, f)
          /\ registered' = registered \cup {f.name}
          /\ regOut' = [op |-> "register", name |-> f.name]
    /\ UNCHANGED batch
    /\ UNCHANGED wfVars
    /\ UNCHANGED txVars
    /\ UNCHANGED <<aiVars, spVars>>

CreateConstraint ==
    /\ \E n \in ProbeNames, c \in FactoryConfigs :
          regOut' = [op |-> "create_constraint", name |-> n, config |-> c,
                     res |-> create_constraint(registry, n, c)]
    /\ UNCHANGED <<registry, registered, batch>>
    /\ UNCHANGED wfVars
    /\ UNCHANGED txVars
    /\ UNCHANGED <<aiVars, spVars>>

(* Constraint::check on the constraint create_constraint just returned *)
CheckCreated ==
    /\ regOut.op = "create_constraint"
    /\ regOut.res.ok
    /\ \E t \in RegTexts :
          regOut' = [op |-> "check", name |-> regOut.name, config |-> regOut.config,
                     text |-> t, res |-> Constraint_check(regOut.res.value, t)]
    /\ UNCHANGED <<registry, registered, batch>>
    /\ UNCHANGED wfVars
    /\ UNCHANGED txVars
    /\ UNCHANGED <<aiVars, spVars>>

NextRegistry ==
    \/ Register
    \/ CreateConstraint
    \/ CheckCreated

SpecRegistry == Init /\ [][NextRegistry]_vars

----------------------------------------------------------------------------
(* Properties of the registry (SpecRegistry). *)

IsRegistered(name) == \E i \in 1..Len(registry) : registry[i].key = name

BuiltinUnivocalic == "univocalic" \notin registered

AsciiVowels == {"a", "e", "i", "o", "u", "A", "E", "I", "O", "U"}

(* the config has no string field allowed_vowel, or the string is empty,   *)
(* or its first character is not a vowel                                   *)
BadVowelConfig(cfg) ==
    \/ cfg.allowed_vowel.t # "str"
    \/ cfg.allowed_vowel.s = <<>>
    \/ Head(cfg.allowed_vowel.s) \notin AsciiVowels

IsInvalidConfig(res) == ~res.ok /\ res.value.error = "InvalidConfig"

(* C5: create_constraint returns InvalidConfig when the name is not        *)
(* registered and, for the built-in "univocalic", when allowed_vowel is    *)
(* missing, not a string, empty, or does not start with one of a,e,i,o,u   *)
(* in either case; in every other case it returns a constraint.            *)
C5_CreateRejectsBadConfig ==
    regOut.op = "create_constraint" =>
        LET bad == \/ ~IsRegistered(regOut.name)
                   \/ /\ regOut.name = "univocalic"
                      /\ BuiltinUnivocalic
                      /\ BadVowelConfig(regOut.config)
        IN IF bad THEN IsInvalidConfig(regOut.res) ELSE regOut.res.ok

(* C6: the constraint the registry creates for "univocalic" and a valid    *)
(* config {allowed_vowel: v} gives, for every text, the ConstraintResult   *)
(* of the free function univocalic::check(text, v).                        *)
C6_RegistryRoundTrip ==
    (regOut.op = "check" /\ regOut.name = "univocalic" /\ BuiltinUnivocalic) =>
        regOut.res = univocalic_check(regOut.text, Head(regOut.config.allowed_vowel.s))

C6_Witness ==
    /\ regOut.op = "check"
    /\ regOut.name = "univocalic"
    /\ BuiltinUnivocalic
    /\ regOut.config.allowed_vowel.s = <<"A">>
    /\ regOut.res.ok
    /\ Len(regOut.res.value.violations) = 2

SeqRange(s) == {s[i] : i \in 1..Len(s)}

RegisteredNames == {"univocalic"} \cup registered

(* C7: available_constraints() and list_constraints() hold exactly the     *)
(* built-in name and the names passed to register, each once;              *)
(* get_constraint_info and get_config_schema are Some exactly for those    *)
(* names, and create_constraint succeeds only for them.                    *)
C7_RegistryNames ==
    LET avail == available_constraints(registry)
        infos == list_constraints(registry)
    IN /\ SeqRange(avail) = RegisteredNames
       /\ Len(avail) = Cardinality(RegisteredNames)
       /\ {infos[i].name : i \in 1..Len(infos)} = RegisteredNames
       /\ Len(infos) = Cardinality(RegisteredNames)
       /\ \A n \in ProbeNames :
            /\ get_constraint_info(registry, n) # None <=> n \in RegisteredNames
            /\ get_config_schema(registry, n) # None <=> n \in RegisteredNames
       /\ (regOut.op = "create_constraint" /\ regOut.res.ok)
            => regOut.name \in RegisteredNames

C7_Witness ==
    /\ registered = {"univocalic", "lipogram"}
    /\ Len(registry) = 2
    /\ regOut.op = "create_constraint"
    /\ regOut.name = "lipogram"
    /\ regOut.res.ok

----------------------------------------------------------------------------
(* The batch specification: constraints are added to a batch checker and   *)
(* the batch is run against texts.                                         *)

AddConstraint ==
    /\ Len(batch) < MaxBatch
    /\ \E c \in BatchConstraints :
          /\ batch' = add_constraint(batch, c)
          /\ regOut' = [op |-> "add_constraint", constraint |-> c]
    /\ UNCHANGED <<registry, registered>>
    /\ UNCHANGED wfVars
    /\ UNCHANGED txVars
    /\ UNCHANGED <<aiVars, spVars>>

CheckAll ==
    /\ \E t \in RegTexts :
          LET r == check_all(batch, t)
          IN regOut' = [op |-> "check_all", text |-> t, res |-> r.res,
                        evaluated |-> r.evaluated]
    /\ UNCHANGED <<registry, registered, batch>>
    /\ UNCHANGED wfVars
    /\ UNCHANGED txVars
    /\ UNCHANGED <<aiVars, spVars>>

CheckAllPass ==
    /\ \E t \in RegTexts :
          LET r == check_all_pass(batch, t)
          IN regOut' = [op |-> "check_all_pass", text |-> t, res |-> r.res,
                        evaluated |-> r.evaluated]
    /\ UNCHANGED <<registry, registered, batch>>
    /\ UNCHANGED wfVars
    /\ UNCHANGED txVars
    /\ UNCHANGED <<aiVars, spVars>>

NextBatch ==
    \/ AddConstraint
    \/ CheckAll
    \/ CheckAllPass

SpecBatch == Init /\ [][NextBatch]_vars

----------------------------------------------------------------------------
(* Properties of the batch checker (SpecBatch). *)

(* C8: check_all returns one result per added constraint, in the order the *)
(* constraints were added, and evaluates every constraint, also after one  *)
(* that reported success = false.                                          *)
C8_CheckAllComplete ==
    regOut.op = "check_all" =>
        /\ regOut.res.ok
        /\ Len(regOut.res.value) = Len(batch)
        /\ regOut.evaluated = Len(batch)
        /\ \A i \in 1..Len(batch) :
             /\ regOut.res.value[i].metadata.allowed_vowel = JStr(<<batch[i].allowed_vowel>>)
             /\ regOut.res.value[i] = Constraint_check(batch[i], regOut.text).value

C8_Witness ==
    /\ regOut.op = "check_all"
    /\ regOut.res.ok
    /\ Len(batch) = 2
    /\ Len(regOut.res.value) = 2
    /\ ~regOut.res.value[1].success
    /\ regOut.res.value[2].success

(* C9: check_all_pass returns true iff every result of check_all has       *)
(* success = true, and stops at the first failing constraint: it evaluates *)
(* the constraints up to and including that one and no later one.          *)
C9_CheckAllPassShortCircuit ==
    regOut.op = "check_all_pass" =>
        LET all == check_all(batch, regOut.text).res.value
            failing == {i \in 1..Len(all) : ~all[i].success}
        IN /\ regOut.res.ok
           /\ regOut.res.value <=> failing = {}
           /\ failing = {} => regOut.evaluated = Len(batch)
           /\ failing # {} => (regOut.evaluated \in failing
                               /\ \A i \in failing : regOut.evaluated <= i)

C9_Witness ==
    /\ regOut.op = "check_all_pass"
    /\ regOut.res.ok
    /\ ~regOut.res.value
    /\ Len(batch) = 2
    /\ regOut.evaluated = 1

----------------------------------------------------------------------------
(* The text specification: one call of a preset workflow, a text check or  *)
(* a transform, on inputs drawn from bounded sets.                         *)

(* n copies of unit *)
Rep(unit, n) == [i \in 1..(n * Len(unit)) |-> unit[((i - 1) % Len(unit)) + 1]]

PresetNames == {"strict", "minimal", "experimental", "default", "Strict", ""}

ShortTexts ==
    {Rep(<<"e", "sp">>, n) : n \in {0, 2, 3, 5, 9, 10, 20, 21, 50, 51}}
        \cup {Rep(<<"e">>, n) : n \in {9, 10, 49, 50, 99, 100, 101}}
        \cup {Rep(<<"a", "e", "sp">>, n) : n \in {1, 3, 4, 17, 34}}

LongTexts ==
    {Rep(<<"e", "sp">>, n) : n \in {200, 201}} \cup {Rep(<<"e">>, n) : n \in {1000, 1001}}

(* texts for a preset with a per-character constraint stay short *)
ExperimentalTexts ==
    {Rep(<<"e">>, n) : n \in {0, 9, 49, 50, 51}}
        \cup {Rep(<<"a", "e", "sp">>, n) : n \in {1, 16, 17, 20}}
        \cup {Rep(<<"e", "sp">>, n) : n \in {2, 25}}

PresetTexts(p) == IF p = "experimental" THEN ExperimentalTexts ELSE ShortTexts \cup LongTexts

NoCall == textOut.op = "none"

(* every text of at most n characters over chars *)
TextsOver(chars, n) == UNION {[1..k -> chars] : k \in 0..n}

LipogramChars == {"a", "A", "b", "sp", "I_dot"}
ForbiddenLetters == {<<"a">>, <<"A">>, <<"b">>, <<"I_dot">>}

CheckWithPreset ==
    /\ NoCall
    /\ \E p \in PresetNames : \E t \in PresetTexts(p) :
          textOut' = [op |-> "check_with_preset", text |-> t, preset |-> p,
                      res |-> check_with_preset(t, p)]
    /\ UNCHANGED wfVars
    /\ UNCHANGED regVars
    /\ UNCHANGED <<aiVars, spVars>>

CheckLipogram ==
    /\ NoCall
    /\ \E t \in TextsOver(LipogramChars, MaxCheckText), f \in ForbiddenLetters :
          textOut' = [op |-> "check_lipogram", text |-> t, forbidden_letter |-> f,
                      res |-> lipogram_check(t, f)]
    /\ UNCHANGED wfVars
    /\ UNCHANGED regVars
    /\ UNCHANGED <<aiVars, spVars>>

UnivocalicChars == {"a", "E", "b", "1", "I_dot"}
AllowedVowels == {"a", "A", "e", "i"}

CheckUnivocalic ==
    /\ NoCall
    /\ \E t \in TextsOver(UnivocalicChars, MaxCheckText), v \in AllowedVowels :
          textOut' = [op |-> "check_univocalic", text |-> t, allowed_vowel |-> v,
                      res |-> univocalic_check(t, v)]
    /\ UNCHANGED wfVars
    /\ UNCHANGED regVars
    /\ UNCHANGED <<aiVars, spVars>>

(* words of the given lengths, after lead and separated by sep *)
RECURSIVE JoinWords(_, _, _)
JoinWords(lens, lead, sep) ==
    IF lens = <<>> THEN <<>>
    ELSE lead \o Rep(<<"a">>, Head(lens)) \o JoinWords(Tail(lens), sep, sep)

Separators == {<<"sp">>, <<"sp", "sp">>, <<"nl">>}

SnowballTexts ==
    {JoinWords(lens, lead, sep) :
        lens \in UNION {[1..k -> 1..MaxWords] : k \in 0..MaxWords},
        lead \in {<<>>, <<"sp">>}, sep \in Separators}
    \cup TextsOver({"a", "sp", "I_dot"}, MaxCheckText)

CheckSnowball ==
    /\ NoCall
    /\ \E t \in SnowballTexts :
          textOut' = [op |-> "check_snowball", text |-> t, res |-> snowball_check(t)]
    /\ UNCHANGED wfVars
    /\ UNCHANGED regVars
    /\ UNCHANGED <<aiVars, spVars>>

PalindromeChars == {"a", "A", "b", "1", "sp", "I_dot"}

CheckPalindrome ==
    /\ NoCall
    /\ \E t \in TextsOver(PalindromeChars, MaxCheckText) :
          textOut' = [op |-> "check_palindrome", text |-> t, res |-> palindrome_check(t)]
    /\ UNCHANGED wfVars
    /\ UNCHANGED regVars
    /\ UNCHANGED <<aiVars, spVars>>

PrisonersChars == {"c", "H", "d", "1", "I_dot"}

HimIsSix == <<"h", "i", "m", "sp", "i", "s", "sp", "s", "i", "x">>
Dog == <<"d", "o", "g">>

PrisonersTexts == TextsOver(PrisonersChars, MaxCheckText) \cup {HimIsSix, Dog}

CheckPrisoners ==
    /\ NoCall
    /\ \E t \in PrisonersTexts :
          textOut' = [op |-> "check_prisoners_constraint", text |-> t,
                      res |-> prisoners_check(t)]
    /\ UNCHANGED wfVars
    /\ UNCHANGED regVars
    /\ UNCHANGED <<aiVars, spVars>>

AllEndWords == <<<<"a">>, <<"b">>, <<"c">>, <<"d">>, <<"e">>, <<"f">>, <<"g">>>>

EndWordLists ==
    {SubSeq(AllEndWords, 1, k) : k \in {0, 5, 6, 7}} \cup {[k \in 1..6 |-> <<"a">>]}

LineCounts == {0, 1, 2, 38, 39, 40}
LineFills == {"empty", "same", "rotating"}

(* the content of line i (0-based) under a fill *)
LineOf(i, fill) ==
    CASE fill = "empty" -> <<>>
      [] fill = "same" -> <<"x", "sp", "A">>
      [] fill = "rotating" ->
           IF i < 36 THEN <<"x", "sp">> \o AllEndWords[expected_pattern[(i \div 6) + 1][(i % 6) + 1] + 1]
                     ELSE <<"x">>

RECURSIVE JoinLines(_, _, _)
JoinLines(i, n, fill) ==
    IF i >= n THEN <<>>
    ELSE LineOf(i, fill) \o (IF i + 1 < n THEN <<"nl">> ELSE <<>>) \o JoinLines(i + 1, n, fill)

SestinaTexts ==
    {JoinLines(0, n, fill) \o end :
        n \in LineCounts, fill \in LineFills, end \in {<<>>, <<"nl">>}}

CheckSestina ==
    /\ NoCall
    /\ \E t \in SestinaTexts, w \in EndWordLists :
          textOut' = [op |-> "check_sestina", text |-> t, end_words |-> w,
                      res |-> sestina_check(t, w)]
    /\ UNCHANGED wfVars
    /\ UNCHANGED regVars
    /\ UNCHANGED <<aiVars, spVars>>

The == <<"t", "h", "e">>
TheCapital == <<"T", "h", "e">>
Techniques == <<"t", "e", "c", "h", "n", "i", "q", "u", "e", "s">>
Hello == <<"h", "e", "l", "l", "o">>

LookupWords == {The, TheCapital, Dog, Techniques, Hello}
Offsets == {-41, -8, -1, 0, 1, 7, 33, 39, 40, 47, I32_MAX - 7, I32_MAX, I32_MIN}

GetNPlusWord ==
    /\ NoCall
    /\ \E w \in LookupWords, offset \in Offsets, overflow_checks \in BOOLEAN :
          textOut' = [op |-> "get_n_plus_word", word |-> w, offset |-> offset,
                      overflow_checks |-> overflow_checks,
                      res |-> get_n_plus_word(w, offset, overflow_checks)]
    /\ UNCHANGED wfVars
    /\ UNCHANGED regVars
    /\ UNCHANGED <<aiVars, spVars>>

TransformWords == {The, Dog, Hello}
TransformOffsets == {-1, 0, 7, 40}

(* the given words, after lead and separated by sep *)
RECURSIVE JoinText(_, _, _)
JoinText(ws, lead, sep) ==
    IF ws = <<>> THEN <<>>
    ELSE lead \o Head(ws) \o JoinText(Tail(ws), sep, sep)

TransformTexts ==
    {JoinText(ws, <<>>, sep) :
        ws \in UNION {[1..k -> TransformWords] : k \in 0..MaxWords},
        sep \in {<<"sp">>, <<"sp", "sp">>}}

NPlus7Transform ==
    /\ NoCall
    /\ \E t \in TransformTexts, offset \in TransformOffsets, overflow_checks \in BOOLEAN :
          textOut' = [op |-> "n_plus_7_transform", text |-> t, offset |-> offset,
                      overflow_checks |-> overflow_checks,
                      res |-> n_plus_7_transform(t, offset, overflow_checks)]
    /\ UNCHANGED wfVars
    /\ UNCHANGED regVars
    /\ UNCHANGED <<aiVars, spVars>>

ValidatorTexts == TextsOver({"a", "sp", "I_dot"}, MaxCheckText)
ValidatorBounds == {None} \cup {Some(n) : n \in 0..2}

(* the service validator called with the same bounds; the service takes a  *)
(* plain minimum, so there is no such call for an absent minimum           *)
ServiceValidator(validator(_, _, _), text, min, max) ==
    IF min = None THEN None ELSE Some(validator(text, min[1], max))

CmdValidateTextLength ==
    /\ NoCall
    /\ \E t \in ValidatorTexts, min \in ValidatorBounds, max \in ValidatorBounds :
          textOut' = [op |-> "cmd_validate_text_length", text |-> t,
                      min |-> min, max |-> max,
                      res |-> cmd_validate_text_length(t, min, max),
                      service |-> ServiceValidator(OulipoService_validate_text_length,
                                                   t, min, max)]
    /\ UNCHANGED wfVars
    /\ UNCHANGED regVars
    /\ UNCHANGED <<aiVars, spVars>>

CmdValidateWordCount ==
    /\ NoCall
    /\ \E t \in ValidatorTexts, min \in ValidatorBounds, max \in ValidatorBounds :
          textOut' = [op |-> "cmd_validate_word_count", text |-> t,
                      min |-> min, max |-> max,
                      res |-> cmd_validate_word_count(t, min, max),
                      service |-> ServiceValidator(OulipoService_validate_word_count,
                                                   t, min, max)]
    /\ UNCHANGED wfVars
    /\ UNCHANGED regVars
    /\ UNCHANGED <<aiVars, spVars>>

(* one ("univocalic", config) entry run by check_with_workflow, and the    *)
(* same config given to the registry's create_constraint followed by check *)
registry_resolve(name, cfg, text) ==
    LET created == create_constraint(ConstraintRegistry_new, name, cfg)
    IN IF created.ok THEN Constraint_check(created.value, text) ELSE created

ResolveUnivocalic ==
    /\ NoCall
    /\ \E c \in FactoryConfigs, t \in RegTexts :
          textOut' = [op |-> "resolve_univocalic", config |-> c, text |-> t,
                      workflow |-> run_preset(t, build(with_constraint(
                                      ConstraintWorkflowBuilder_new, "univocalic", c))),
                      registry |-> registry_resolve("univocalic", c, t)]
    /\ UNCHANGED wfVars
    /\ UNCHANGED regVars
    /\ UNCHANGED <<aiVars, spVars>>

NextText ==
    \/ CheckWithPreset
    \/ CheckLipogram
    \/ CheckUnivocalic
    \/ CheckSnowball
    \/ CheckPalindrome
    \/ CheckPrisoners
    \/ CheckSestina
    \/ GetNPlusWord
    \/ NPlus7Transform
    \/ CmdValidateTextLength
    \/ CmdValidateWordCount
    \/ ResolveUnivocalic

SpecText == Init /\ [][NextText]_vars

----------------------------------------------------------------------------
(* Properties of the presets (SpecText). *)

PresetConfig(name) ==
    CASE name = "strict" ->
           [constraints |-> <<>>,
            validation_config |-> [min_length |-> Some(100), max_length |-> Some(1000),
                                   min_words |-> Some(10), max_words |-> Some(200)]]
      [] name = "minimal" ->
           [constraints |-> <<>>,
            validation_config |-> [min_length |-> Some(10), max_length |-> Some(100),
                                   min_words |-> Some(3), max_words |-> Some(20)]]
      [] name = "experimental" ->
           [constraints |-> <<[name |-> "univocalic",
                               config |-> [allowed_vowel |-> JStr(<<"e">>)]]>>,
            validation_config |-> [min_length |-> Some(50), max_length |-> None,
                                   min_words |-> None, max_words |-> None]]

(* C11: for "strict", "minimal" and "experimental", check_with_preset      *)
(* returns the WorkflowResult of check_with_workflow on the preset's       *)
(* configuration (strict and minimal always with a non-empty               *)
(* constraint_results); for every other name it returns an error.          *)
C11_PresetDelegates ==
    textOut.op = "check_with_preset" =>
        IF textOut.preset \in {"strict", "minimal", "experimental"}
        THEN /\ textOut.res.ok
             /\ textOut.res = check_with_workflow(textOut.text, PresetConfig(textOut.preset))
             /\ textOut.preset \in {"strict", "minimal"}
                  => textOut.res.value.constraint_results # <<>>
        ELSE ~textOut.res.ok

C11_Witness ==
    /\ textOut.op = "check_with_preset"
    /\ textOut.preset = "minimal"
    /\ textOut.res.ok
    /\ Len(textOut.res.value.constraint_results) = 2
    /\ textOut.res.value.constraint_results[1].success
    /\ ~textOut.res.value.constraint_results[2].success

----------------------------------------------------------------------------
(* Properties of the text checks (SpecText). *)

StrictlyIncreasing(violations) ==
    \A k \in 1..(Len(violations) - 1) :
        violations[k].position < violations[k + 1].position

(* the violations are exactly one length-1 violation per index of hits, at *)
(* that character's offset, in increasing offset order                     *)
OnePerCharacter(text, violations, hits) ==
    /\ Len(violations) = Cardinality(hits)
    /\ \A k \in 1..Len(violations) :
          /\ violations[k].length = 1
          /\ \E i \in hits : violations[k].position = char_offset(text, i)
    /\ StrictlyIncreasing(violations)

LipogramHits(t, f) ==
    {i \in 1..Len(t) : to_lowercase(t[i]) = str_to_lowercase(f)}

(* C12: lipogram::check(t, f) succeeds iff no character of t has a         *)
(* lowercase form equal to the lowercase of f, and it reports one length-1 *)
(* violation per such character, at its offset, in increasing order.       *)
C12_LipogramExact ==
    textOut.op = "check_lipogram" =>
        LET t == textOut.text
            hits == LipogramHits(t, textOut.forbidden_letter)
        IN /\ textOut.res.ok
           /\ textOut.res.value.success <=> hits = {}
           /\ OnePerCharacter(t, textOut.res.value.violations, hits)

C12_Witness ==
    /\ textOut.op = "check_lipogram"
    /\ textOut.forbidden_letter = <<"a">>
    /\ textOut.text = <<"A", "b", "a">>
    /\ Len(textOut.res.value.violations) = 2

DisallowedVowels(t, v) ==
    {i \in 1..Len(t) : t[i] \in AsciiVowels /\ to_lowercase(t[i]) # to_lowercase(v)}

(* C13: for a vowel v of a, e, i, o, u (either case), the univocalic check *)
(* succeeds iff every vowel character of t equals v case-insensitively,    *)
(* and it reports exactly one length-1 violation per disallowed vowel      *)
(* occurrence, at its offset; no other character produces a violation.     *)
C13_UnivocalicExact ==
    textOut.op = "check_univocalic" =>
        LET t == textOut.text
            hits == DisallowedVowels(t, textOut.allowed_vowel)
        IN /\ textOut.res.ok
           /\ textOut.res.value.success <=> hits = {}
           /\ OnePerCharacter(t, textOut.res.value.violations, hits)

(* the indices at which a word of t starts, the 1-based rank of the word   *)
(* starting at i, and that word's length in bytes                          *)
WordStarts(t) ==
    {i \in 1..Len(t) : ~is_whitespace(t[i]) /\ (i = 1 \/ is_whitespace(t[i - 1]))}

WordRank(t, i) == Cardinality({j \in WordStarts(t) : j <= i})

WordEnd(t, i) ==
    CHOOSE j \in i..Len(t) :
        /\ \A k \in i..j : ~is_whitespace(t[k])
        /\ (j = Len(t) \/ is_whitespace(t[j + 1]))

WordLength(t, i) == str_len(SubSeq(t, i, WordEnd(t, i)))

MismatchedWords(t) == {i \in WordStarts(t) : WordLength(t, i) # WordRank(t, i)}

PalindromeDecidedBy(cleaned) ==
    /\ textOut.res.ok
    /\ textOut.res.value.success <=> cleaned = Reverse(cleaned)
    /\ textOut.res.value.success => textOut.res.value.violations = <<>>
    /\ ~textOut.res.value.success => textOut.res.value.violations # <<>>

FirstLowercase(s) == [i \in 1..Len(s) |-> Head(to_lowercase(s[i]))]

(* C15 as stated: palindrome::check(t) succeeds iff t with every           *)
(* non-alphanumeric character deleted and the rest lowercased equals its   *)
(* own reverse; no violations on success, at least one on failure.         *)
C15_PalindromeLowercased ==
    textOut.op = "check_palindrome" =>
        PalindromeDecidedBy(str_to_lowercase(SelectSeq(textOut.text, is_alphanumeric)))

(* C15 amended: palindrome::check(t) succeeds iff t with every             *)
(* non-alphanumeric character deleted and every remaining character        *)
(* replaced by the first character of its lowercase mapping equals its own *)
(* reverse; no violations on success, at least one on failure.             *)
C15_PalindromeFirstLowercase ==
    textOut.op = "check_palindrome" =>
        PalindromeDecidedBy(FirstLowercase(SelectSeq(textOut.text, is_alphanumeric)))

C15_Witness ==
    /\ textOut.op = "check_palindrome"
    /\ textOut.text = <<"I_dot", "sp", "I_dot">>
    /\ textOut.res.value.success
    /\ textOut.res.value.metadata.cleaned_text = JStr(<<"i", "i">>)

LoopFree ==
    {"c", "f", "h", "i", "j", "k", "l", "m", "n", "s", "t", "u", "v", "w", "x", "y", "z"}

LoopLetters(t) ==
    {i \in 1..Len(t) :
        /\ is_alphabetic(t[i])
        /\ ~\E l \in LoopFree : to_lowercase(t[i]) = <<l>>}

LineCount(t) ==
    Cardinality({i \in 1..Len(t) : t[i] = "nl"})
        + (IF t # <<>> /\ t[Len(t)] # "nl" THEN 1 ELSE 0)

(* C17: when the number of end words is not 6 or the number of lines is    *)
(* not 39, sestina::check returns Ok with success=false and exactly one    *)
(* violation spanning the whole text (position 0, length = text length)    *)
(* that names the mismatch, whatever the lines contain.                    *)
C17_SestinaStructuralMismatch ==
    (/\ textOut.op = "check_sestina"
     /\ (Len(textOut.end_words) # 6 \/ LineCount(textOut.text) # 39)) =>
        LET r == textOut.res.value
        IN /\ textOut.res.ok
           /\ ~r.success
           /\ r.result = None
           /\ Len(r.violations) = 1
           /\ r.violations[1].position = 0
           /\ r.violations[1].length = str_len(textOut.text)
           /\ r.violations[1].issue =
                 IF Len(textOut.end_words) # 6
                 THEN Fmt("Sestina requires exactly 6 end words", <<>>, <<>>)
                 ELSE Fmt("Sestina should have 39 lines (6 stanzas + 3-line envoi), found",
                          <<>>, <<LineCount(textOut.text)>>)

C17_Witness ==
    /\ textOut.op = "check_sestina"
    /\ Len(textOut.end_words) = 6
    /\ LineCount(textOut.text) = 38
    /\ textOut.text[Len(textOut.text)] = "nl"
    /\ Len(textOut.res.value.violations) = 1
    /\ textOut.res.value.violations[1].length > 38

----------------------------------------------------------------------------
(* Properties of the dictionary and the N+7 transform (SpecText). *)

InVocabulary(w) == \E i \in 1..Len(words) : words[i] = str_to_lowercase(w)

VocabularyIndex(w) == (CHOOSE i \in 1..Len(words) : words[i] = str_to_lowercase(w)) - 1

(* C18: for a word of the vocabulary at index i and any offset (zero,      *)
(* positive, beyond the vocabulary size, negative), get_n_plus_word        *)
(* returns the entry at index (i + offset) modulo the vocabulary size, an  *)
(* index in 0..39; the lookup never leaves the vocabulary and never fails. *)
C18_NPlusWordWraps ==
    (textOut.op = "get_n_plus_word" /\ InVocabulary(textOut.word)) =>
        LET n == Len(words)
            target == ((VocabularyIndex(textOut.word) % n) + (textOut.offset % n)) % n
        IN /\ ~textOut.res.panic
           /\ target \in 0..39
           /\ textOut.res.value = Some(words[target + 1])

(* the k-th word of t (1-based), by word starts *)
WordAt(t, k) ==
    LET i == CHOOSE j \in WordStarts(t) : WordRank(t, j) = k
    IN SubSeq(t, i, WordEnd(t, i))

WordCount(t) == Cardinality(WordStarts(t))

(* C19: the N+7 transform returns success=true with as many output words   *)
(* as input words; every input word outside the vocabulary appears         *)
(* unchanged at the same word position of the output; replacements_made    *)
(* counts exactly the input words found in the vocabulary.                 *)
C19_TransformPassThrough ==
    textOut.op = "n_plus_7_transform" =>
        /\ ~textOut.res.panic
        /\ textOut.res.value.ok
        /\ LET t == textOut.text
               r == textOut.res.value.value
               out == r.result[1]
           IN /\ r.success
              /\ WordCount(out) = WordCount(t)
              /\ \A k \in 1..WordCount(t) :
                    ~InVocabulary(WordAt(t, k)) => WordAt(out, k) = WordAt(t, k)
              /\ r.metadata.replacements_made =
                    JNum(Cardinality({k \in 1..WordCount(t) : InVocabulary(WordAt(t, k))}))

----------------------------------------------------------------------------
(* Violation positions of the per-character and per-word checks (SpecText). *)

PerCharacterOrWordChecks ==
    {"check_lipogram", "check_univocalic", "check_prisoners_constraint", "check_snowball"}

(* C20: every violation reported by the lipogram, univocalic, prisoner's   *)
(* and snowball checks satisfies position + length <= length of the input  *)
(* text, also with leading whitespace or runs of whitespace between words. *)
C20_ViolationWithinText ==
    textOut.op \in PerCharacterOrWordChecks =>
        \A k \in 1..Len(textOut.res.value.violations) :
            textOut.res.value.violations[k].position
                + textOut.res.value.violations[k].length <= str_len(textOut.text)

C20_Witness ==
    /\ textOut.op = "check_snowball"
    /\ textOut.text = <<"sp", "a", "sp", "sp", "a">>
    /\ Len(textOut.res.value.violations) = 1
    /\ textOut.res.value.violations[1].position = 2
    /\ textOut.res.value.violations[1].length = 1

----------------------------------------------------------------------------
(* Evidence and suggestions carried by results. *)

CarriesEvidence(r) == r.success <=> r.violations = <<>>

(* C21: every ConstraintResult inside WorkflowResult.constraint_results,   *)
(* the entry produced for an unrecognized constraint name included, has a  *)
(* non-empty violations list when success is false and an empty one when   *)
(* success is true.                                                        *)
C21_FailureCarriesEvidence ==
    (WfDone /\ wfOut[1].ok) =>
        \A i \in 1..Len(WfRes.constraint_results) :
            CarriesEvidence(WfRes.constraint_results[i])

(* the same for the results of the constraint checks called directly *)
TextCheckCarriesEvidence ==
    textOut.op \in {"check_lipogram", "check_univocalic", "check_snowball",
                    "check_palindrome", "check_prisoners_constraint", "check_sestina"}
        => CarriesEvidence(textOut.res.value)

ReturnsConstraintResult ==
    textOut.op \in {"check_lipogram", "check_univocalic", "check_snowball",
                    "check_palindrome", "check_prisoners_constraint", "check_sestina",
                    "cmd_validate_text_length", "cmd_validate_word_count"}

(* C22: every ConstraintResult returned by a constraint check or by the    *)
(* command-level validate_text_length / validate_word_count has a          *)
(* non-empty suggestions list, on success as on failure.                   *)
C22_SuggestionsNeverEmpty ==
    ReturnsConstraintResult => textOut.res.value.suggestions # <<>>

(* the same without the commands, and for the service validators *)
ChecksSuggestSomething ==
    /\ (ReturnsConstraintResult
          /\ textOut.op \notin {"cmd_validate_text_length", "cmd_validate_word_count"})
         => textOut.res.value.suggestions # <<>>
    /\ (textOut.op \in {"cmd_validate_text_length", "cmd_validate_word_count"}
          /\ textOut.service # None)
         => textOut.service[1].value.suggestions # <<>>

SameViolationSpans(vs, ws) ==
    /\ Len(vs) = Len(ws)
    /\ \A k \in 1..Len(vs) :
          vs[k].position = ws[k].position /\ vs[k].length = ws[k].length

(* C24: the command-level validate_text_length and validate_word_count     *)
(* return the same ConstraintResult as the service validators called with  *)
(* the same bounds: same success flag, same violations with the same       *)
(* positions and lengths, same suggestions.                                *)
C24_CommandMatchesService ==
    (/\ textOut.op \in {"cmd_validate_text_length", "cmd_validate_word_count"}
     /\ textOut.service # None) =>
        LET c == textOut.res.value
            s == textOut.service[1].value
        IN /\ textOut.res.ok /\ textOut.service[1].ok
           /\ c.success = s.success
           /\ SameViolationSpans(c.violations, s.violations)
           /\ c.suggestions = s.suggestions

-----------------------------------------------------------------------------
(* mod.rs: the registry accessors of OulipoService.  The service holds no  *)
(* registry field: every call constructs a registry of its own.  In the    *)
(* service specification `registry` is the registry value the caller got   *)
(* from constraint_registry() and `registered` the names the caller        *)
(* registered on it.                                                       *)

constraint_registry == ConstraintRegistry_new

create_custom_constraint(name, cfg) == create_constraint(constraint_registry, name, cfg)

list_available_constraints == list_constraints(constraint_registry)

ServiceConstraintRegistry ==
    /\ registry' = constraint_registry
    /\ registered' = {}
    /\ regOut' = [op |-> "constraint_registry"]
    /\ UNCHANGED batch
    /\ UNCHANGED wfVars
    /\ UNCHANGED txVars
    /\ UNCHANGED <<aiVars, spVars>>

CreateCustomConstraint ==
    /\ \E n \in ProbeNames, c \in FactoryConfigs :
          regOut' = [op |-> "create_custom_constraint", name |-> n, config |-> c,
                     res |-> create_custom_constraint(n, c)]
    /\ UNCHANGED <<registry, registered, batch>>
    /\ UNCHANGED wfVars
    /\ UNCHANGED txVars
    /\ UNCHANGED <<aiVars, spVars>>

ListAvailableConstraints ==
    /\ regOut' = [op |-> "list_available_constraints", res |-> list_available_constraints]
    /\ UNCHANGED <<registry, registered, batch>>
    /\ UNCHANGED wfVars
    /\ UNCHANGED txVars
    /\ UNCHANGED <<aiVars, spVars>>

NextService ==
    \/ ServiceConstraintRegistry
    \/ Register
    \/ CreateCustomConstraint
    \/ ListAvailableConstraints

SpecService == Init /\ [][NextService]_vars

InfoNames(infos) == {infos[i].name : i \in 1..Len(infos)}

(* the registry the caller holds does know the names registered on it *)
HeldRegistryKnowsRegistered ==
    \A n \in registered : get_constraint_info(registry, n) # None

(* C23: a factory registered through the registry that                     *)
(* constraint_registry() returned is visible to later calls on the same    *)
(* service: create_custom_constraint does not answer "Unknown constraint"  *)
(* for its name and list_available_constraints lists its name.             *)
C23_RegisteredVisibleToService ==
    /\ (regOut.op = "create_custom_constraint" /\ regOut.name \in registered)
          => (regOut.res.ok \/ regOut.res.value.msg.msg # "Unknown constraint")
    /\ regOut.op = "list_available_constraints"
          => registered \subseteq InfoNames(regOut.res)

ResolvedByWorkflow == textOut.op = "resolve_univocalic"

(* with a usable allowed_vowel the workflow entry and the registry's       *)
(* constraint give the same ConstraintResult                               *)
ValidConfigResolvesAlike ==
    (ResolvedByWorkflow /\ textOut.registry.ok)
        => /\ textOut.workflow.ok
           /\ textOut.workflow.value.constraint_results = <<textOut.registry.value>>

(* C25: check_with_workflow resolves a ("univocalic", config) entry as     *)
(* registry.create_constraint("univocalic", config) followed by check      *)
(* does: the same ConstraintResult when the registry accepts the config,   *)
(* and an error returned to the caller when the registry rejects it.       *)
C25_WorkflowResolvesAsRegistry ==
    ResolvedByWorkflow =>
        IF textOut.registry.ok
        THEN /\ textOut.workflow.ok
             /\ textOut.workflow.value.constraint_results = <<textOut.registry.value>>
        ELSE ~textOut.workflow.ok

-----------------------------------------------------------------------------
(* Where snowball violations point. *)

(* the k-th smallest element of a set of indices *)
KthIndex(S, k) == CHOOSE i \in S : Cardinality({j \in S : j <= i}) = k

(* the words of t are separated by exactly one whitespace byte and t does  *)
(* not start with whitespace                                               *)
SingleSpaced(t) ==
    \A i \in 1..Len(t) :
        is_whitespace(t[i]) => (i > 1 /\ ~is_whitespace(t[i - 1]) /\ len_utf8(t[i]) = 1)

SnowballSpansAreWords(t, violations) ==
    /\ Len(violations) = Cardinality(MismatchedWords(t))
    /\ \A k \in 1..Len(violations) :
          LET i == KthIndex(MismatchedWords(t), k)
          IN /\ violations[k].position = char_offset(t, i)
             /\ violations[k].length = WordLength(t, i)

(* on single-spaced text the running sum of word.len() + 1 is the word's   *)
(* start offset                                                            *)
SingleSpacedSnowballSpans ==
    (textOut.op = "check_snowball" /\ SingleSpaced(textOut.text))
        => SnowballSpansAreWords(textOut.text, textOut.res.value.violations)

(* C26: each snowball violation spans exactly its word in the original     *)
(* text: position is the byte offset at which the offending word starts    *)
(* and length is the word's length, also after leading whitespace and      *)
(* across several whitespace characters between words.                     *)
C26_SnowballSpanIsWord ==
    textOut.op = "check_snowball"
        => SnowballSpansAreWords(textOut.text, textOut.res.value.violations)

-----------------------------------------------------------------------------
(* How many violations a failed palindrome check lists. *)

(* 0-based indices i of the normalized string c whose character differs    *)
(* from the character at the mirror index n-1-i                            *)
MirrorMismatches(c) == {i \in 0..(Len(c) - 1) : c[i + 1] # c[Len(c) - i]}

(* the mismatched mirror pairs (i, n-1-i), named by their front index      *)
MismatchedPairs(c) == {i \in MirrorMismatches(c) : i < Len(c) - 1 - i}

PalindromeViolationsAt(violations, hits) ==
    /\ Len(violations) = Cardinality(hits)
    /\ {violations[k].position : k \in 1..Len(violations)} = hits
    /\ \A k \in 1..Len(violations) : violations[k].length = 1
    /\ StrictlyIncreasing(violations)

FailedPalindrome == textOut.op = "check_palindrome" /\ ~textOut.res.value.success

(* C27: a failed palindrome::check lists exactly one violation             *)
(* per mismatched mirror pair (i, n-1-i), i < n-1-i, of the normalized      *)
(* string, of length 1 at position i, in strictly increasing position.     *)
C27_OnePerMirrorPair ==
    FailedPalindrome =>
        PalindromeViolationsAt(textOut.res.value.violations,
                               MismatchedPairs(palindrome_cleaned(textOut.text)))

(* what the loop lists: one violation per index i of the normalized string *)
(* whose character differs from the one at n-1-i, so both members of each  *)
(* mismatched mirror pair, twice the number of mismatched pairs            *)
OnePerMismatchedIndex ==
    FailedPalindrome =>
        LET c == palindrome_cleaned(textOut.text)
            violations == textOut.res.value.violations
        IN /\ PalindromeViolationsAt(violations, MirrorMismatches(c))
           /\ Len(violations) = 2 * Cardinality(MismatchedPairs(c))

-----------------------------------------------------------------------------
(* Which lines of a well-formed sestina text are checked. *)

(* the line ends, after trimming and in lowercase, with the lowercase word *)
EndsWithWord(line, word) ==
    str_ends_with(str_to_lowercase(str_trim(line)), str_to_lowercase(word))

(* stanza lines k in 0..35 that do not end with end_words[T[k / 6][k % 6]] *)
StanzaMismatches(lines, end_words) ==
    {k \in 0..35 :
        ~EndsWithWord(lines[k + 1], end_words[expected_pattern[(k \div 6) + 1][(k % 6) + 1] + 1])}

(* envoi lines k in 36..38 that hold none of the end words: no check of    *)
(* the envoi against the end words can accept such a line                  *)
EnvoiWithoutEndWord(lines, end_words) ==
    {k \in 36..38 :
        \A w \in 1..Len(end_words) :
            ~str_contains_str(str_to_lowercase(lines[k + 1]), str_to_lowercase(end_words[w]))}

WellFormedSestina ==
    /\ textOut.op = "check_sestina"
    /\ Len(textOut.end_words) = 6
    /\ LineCount(textOut.text) = 39

ViolationPositions(violations) == {violations[k].position : k \in 1..Len(violations)}

(* the 36 stanza lines are checked against the table: one violation per    *)
(* mismatching stanza line, at its line index, and success iff none        *)
StanzaLinesChecked ==
    WellFormedSestina =>
        LET r == textOut.res.value
            lines == str_lines(textOut.text)
            stanza == {k \in 1..Len(r.violations) : r.violations[k].position < 36}
        IN /\ textOut.res.ok
           /\ {r.violations[k].position : k \in stanza} = StanzaMismatches(lines, textOut.end_words)
           /\ Cardinality(stanza) = Cardinality(StanzaMismatches(lines, textOut.end_words))
           /\ StrictlyIncreasing(r.violations)

(* C28: with 6 end words and 39 lines every line is checked: stanza line   *)
(* 6s+l against end_words[T[s][l]] and the three envoi lines 36..38 too;   *)
(* success holds iff no checked line mismatches, with exactly one          *)
(* violation per mismatching line at that line's 0-based index.            *)
C28_AllLinesChecked ==
    WellFormedSestina =>
        LET r == textOut.res.value
            lines == str_lines(textOut.text)
            mismatching == StanzaMismatches(lines, textOut.end_words)
                               \cup EnvoiWithoutEndWord(lines, textOut.end_words)
        IN /\ textOut.res.ok
           /\ mismatching \subseteq ViolationPositions(r.violations)
           /\ ViolationPositions(r.violations) \cap (0..35)
                 = StanzaMismatches(lines, textOut.end_words)
           /\ StrictlyIncreasing(r.violations)
           /\ r.success <=> r.violations = <<>>
           /\ mismatching # {} => ~r.success

-----------------------------------------------------------------------------
(* generate_spiral_combination, one step per loop test or loop body.       *)

(* the call: the early return on no words, or the initial locals *)
SpiralCall ==
    /\ spiral.pc = "idle"
    /\ \E n \in 0..MaxSpiralWords :
          spiral' = IF n = 0
                    THEN [SpiralIdle EXCEPT !.pc = "done"]
                    ELSE [pc |-> "while", n |-> n, lines |-> <<>>,
                          used |-> [i \in 1..n |-> FALSE], current_index |-> 0,
                          step |-> spiral_step(n), line_words |-> <<>>, k |-> 0]
    /\ UNCHANGED <<wfVars, regVars, txVars, aiVars>>

(* the test of `while lines.len() < 4 && used.iter().any(|&u| !u)` *)
SpiralWhile ==
    /\ spiral.pc = "while"
    /\ spiral' = IF Len(spiral.lines) < 4 /\ any_unused(spiral.used)
                 THEN [spiral EXCEPT !.pc = "for", !.line_words = <<>>, !.k = 0]
                 ELSE [spiral EXCEPT !.pc = "done"]
    /\ UNCHANGED <<wfVars, regVars, txVars, aiVars>>

(* one iteration of `for _ in 0..3` up to the inner while, or, after the   *)
(* third, the push of the line                                             *)
SpiralFor ==
    /\ spiral.pc = "for"
    /\ spiral' =
          IF spiral.k < 3
          THEN LET unused == ~spiral.used[spiral.current_index + 1]
               IN [spiral EXCEPT
                     !.line_words = IF unused THEN Append(@, spiral.current_index) ELSE @,
                     !.used = IF unused THEN [@ EXCEPT ![spiral.current_index + 1] = TRUE]
                              ELSE @,
                     !.current_index = (@ + spiral.step) % spiral.n,
                     !.pc = "skip"]
          ELSE [spiral EXCEPT
                  !.lines = IF spiral.line_words # <<>> THEN Append(@, spiral.line_words) ELSE @,
                  !.pc = "while"]
    /\ UNCHANGED <<wfVars, regVars, txVars, aiVars>>

(* the test and the body of the inner `while` *)
SpiralSkip ==
    /\ spiral.pc = "skip"
    /\ spiral' = IF skip_condition(spiral.used, spiral.current_index)
                 THEN [spiral EXCEPT !.current_index = (@ + 1) % spiral.n]
                 ELSE [spiral EXCEPT !.k = @ + 1, !.pc = "for"]
    /\ UNCHANGED <<wfVars, regVars, txVars, aiVars>>

NextSpiral ==
    \/ SpiralCall
    \/ SpiralWhile
    \/ SpiralFor
    \/ SpiralSkip

(* a running call keeps taking steps *)
SpecSpiral == Init /\ [][NextSpiral]_vars /\ WF_vars(NextSpiral)

RECURSIVE Flatten(_)
Flatten(lines) == IF lines = <<>> THEN <<>> ELSE Head(lines) \o Flatten(Tail(lines))

NoRepeat(s) == \A i, j \in 1..Len(s) : s[i] = s[j] => i = j

SpiralShape ==
    /\ Len(spiral.lines) <= 4
    /\ \A l \in 1..Len(spiral.lines) : Len(spiral.lines[l]) \in 1..3
    /\ Len(spiral.line_words) <= 3
    /\ NoRepeat(Flatten(spiral.lines) \o
                (IF spiral.pc \in {"for", "skip"} THEN spiral.line_words ELSE <<>>))

(* at the end of a pass the line holds at least one word *)
PassPlacesWord ==
    (spiral.pc = "for" /\ spiral.k = 3) => spiral.line_words # <<>>

-----------------------------------------------------------------------------
(* commands/ai.rs: update_ai_settings and the commands that clone the      *)
(* service, run from concurrent tasks.  Each task runs one command at a    *)
(* time, at most MaxCalls commands in all.                                 *)

SettingsChoices ==
    {[provider |-> "OpenAI", api_key |-> Some("k1"), model |-> Some("gpt-4o")],
     [provider |-> "Anthropic", api_key |-> Some("k2"), model |-> None],
     [provider |-> "Local", api_key |-> None, model |-> None]}

CloningCommands ==
    {"generate_character_suggestions", "generate_plot_suggestions", "analyze_writing_style"}

(* the frontend invokes update_ai_settings(settings) *)
InvokeUpdate(t) ==
    /\ task[t].pc = "idle"
    /\ task[t].calls < MaxCalls
    /\ \E s \in SettingsChoices :
          task' = [task EXCEPT ![t] = [pc |-> "lock", cmd |-> "update_ai_settings",
                                       settings |-> Some(s), clone |-> None,
                                       calls |-> @.calls + 1]]
    /\ UNCHANGED <<aiService, aiLock>>
    /\ UNCHANGED <<wfVars, regVars, txVars, spVars>>

(* the frontend invokes one of the commands that clone the service *)
InvokeCloning(t) ==
    /\ task[t].pc = "idle"
    /\ task[t].calls < MaxCalls
    /\ \E c \in CloningCommands :
          task' = [task EXCEPT ![t] = [pc |-> "lock", cmd |-> c, settings |-> None,
                                       clone |-> None, calls |-> @.calls + 1]]
    /\ UNCHANGED <<aiService, aiLock>>
    /\ UNCHANGED <<wfVars, regVars, txVars, spVars>>

(* state.services().ai_service()?: Mutex::lock returns the guard *)
AcquireLock(t) ==
    /\ task[t].pc = "lock"
    /\ mutex_acquirable(aiLock)
    /\ aiLock' = Some(t)
    /\ task' = [task EXCEPT ![t].pc = IF task[t].cmd = "update_ai_settings"
                                      THEN "update_provider" ELSE "clone"]
    /\ UNCHANGED aiService
    /\ UNCHANGED <<wfVars, regVars, txVars, spVars>>

(* update_settings: `self.provider = match &settings.provider { .. }` *)
UpdateProvider(t) ==
    /\ task[t].pc = "update_provider"
    /\ aiService' = [aiService EXCEPT !.provider = provider_for(task[t].settings[1])]
    /\ task' = [task EXCEPT ![t].pc = "update_settings"]
    /\ UNCHANGED aiLock
    /\ UNCHANGED <<wfVars, regVars, txVars, spVars>>

(* update_settings: `self.settings = settings` *)
UpdateSettings(t) ==
    /\ task[t].pc = "update_settings"
    /\ aiService' = [aiService EXCEPT !.settings = task[t].settings[1]]
    /\ task' = [task EXCEPT ![t].pc = "return"]
    /\ UNCHANGED aiLock
    /\ UNCHANGED <<wfVars, regVars, txVars, spVars>>

(* update_ai_settings returns Ok(()): the guard goes out of scope *)
ReturnUpdate(t) ==
    /\ task[t].pc = "return"
    /\ aiLock' = None
    /\ task' = [task EXCEPT ![t].pc = "idle"]
    /\ UNCHANGED aiService
    /\ UNCHANGED <<wfVars, regVars, txVars, spVars>>

(* `let service_clone = ai_service.clone()` *)
CloneService(t) ==
    /\ task[t].pc = "clone"
    /\ task' = [task EXCEPT ![t].clone = Some(aiService), ![t].pc = "drop"]
    /\ UNCHANGED <<aiService, aiLock>>
    /\ UNCHANGED <<wfVars, regVars, txVars, spVars>>

(* `drop(ai_service)` *)
DropGuard(t) ==
    /\ task[t].pc = "drop"
    /\ aiLock' = None
    /\ task' = [task EXCEPT ![t].pc = "await"]
    /\ UNCHANGED aiService
    /\ UNCHANGED <<wfVars, regVars, txVars, spVars>>

(* the awaited provider call of the clone completes; it may never do so *)
ProviderReturns(t) ==
    /\ task[t].pc = "await"
    /\ task' = [task EXCEPT ![t].pc = "idle", ![t].clone = None]
    /\ UNCHANGED <<aiService, aiLock>>
    /\ UNCHANGED <<wfVars, regVars, txVars, spVars>>

(* the steps a task takes by itself once its command has been invoked *)
TaskStep(t) ==
    \/ AcquireLock(t)
    \/ UpdateProvider(t)
    \/ UpdateSettings(t)
    \/ ReturnUpdate(t)
    \/ CloneService(t)
    \/ DropGuard(t)

NextAI ==
    \/ \E t \in Tasks : InvokeUpdate(t)
    \/ \E t \in Tasks : InvokeCloning(t)
    \/ \E t \in Tasks : AcquireLock(t)
    \/ \E t \in Tasks : UpdateProvider(t)
    \/ \E t \in Tasks : UpdateSettings(t)
    \/ \E t \in Tasks : ReturnUpdate(t)
    \/ \E t \in Tasks : CloneService(t)
    \/ \E t \in Tasks : DropGuard(t)
    \/ \E t \in Tasks : ProviderReturns(t)

(* every task runs on: a thread that has the lock or can take it does its  *)
(* next step; invocations and provider answers are not promised            *)
SpecAI == Init /\ [][NextAI]_vars /\ \A t \in Tasks : WF_vars(TaskStep(t))

(* positions at which a task reads or writes the AIService in the Mutex *)
AccessPositions == {"update_provider", "update_settings", "return", "clone", "drop"}

LockHeldOnAccess == \A t \in Tasks : task[t].pc \in AccessPositions => aiLock = Some(t)

(* a pair left by one completed update_settings call, or the initial one *)
WrittenByOneUpdate(service) ==
    \/ service = AIService_new
    \/ \E s \in SettingsChoices : service = [provider |-> provider_for(s), settings |-> s]

ClonesAreConsistent ==
    \A t \in Tasks : task[t].clone # None => WrittenByOneUpdate(task[t].clone[1])

NoLockAcrossAwait == \A t \in Tasks : task[t].pc = "await" => aiLock # Some(t)

WaitingUpdate(t) == task[t].pc = "lock" /\ task[t].cmd = "update_ai_settings"

(* C29: with update_ai_settings and the cloning commands interleaved, the  *)
(* AIService is read and written only by the task holding the lock; every  *)
(* clone is a (provider, settings) pair of one completed update_settings   *)
(* call or the initial pair; no task holds the lock while it awaits the    *)
(* provider; a waiting update_ai_settings eventually acquires the lock.    *)
C29_SettingsUnderLock ==
    /\ [](LockHeldOnAccess /\ ClonesAreConsistent /\ NoLockAcrossAwait)
    /\ \A t \in Tasks : WaitingUpdate(t) ~> (aiLock = Some(t))

(* an update has written the provider and not yet the settings while a    *)
(* cloning command waits for the lock                                      *)
C29_Witness ==
    /\ task["t1"].pc = "update_settings"
    /\ ~WrittenByOneUpdate(aiService)
    /\ task["t2"].pc = "lock"
    /\ task["t2"].cmd \in CloningCommands
    /\ aiLock = Some("t1")

====
